---- MODULE Spec2Model ----
\* Verification model of the rayz-shared firmware core: the game-state engine
\* (game_state.cpp), the admin WebSocket dispatcher (ws_server.cpp) and the
\* optimized WebSocket client table (ws_server_optimized.cpp).
EXTENDS Integers, Sequences, FiniteSets, TLC

\* ------------------------------------------------------------------ bounds
\* Number of 1000 ms clock steps explored.
MaxTicks == 6
\* Cap on the deaths counter (hits since the last reset).
MaxDeaths == 6
\* Cap on the deaths counter where the rules are being reconfigured.
MaxConfigDeaths == 2
\* Cap on the sum of the other statistics counters.
MaxStats == 1
\* Number of clock steps explored around the WS client table.
MaxWsTicks == 3
\* Number of clock steps explored while a crowd fills the WS client table.
MaxCrowdTicks == 2
MaxQueued == 2
MaxDatagrams == 3
MaxFlood == 18
MaxStreak == 45
MaxShots == 257
MaxClientShots == 3
MaxHttpCalls == 3

\* ------------------------------------------------------- program constants
\* ws_client_task polls the respawn timer once per second.
PollPeriodMs == 1000
\* Protocol v2.2 opcode registry.
OP_GET_STATUS == 1
OP_HEARTBEAT == 2
OP_CONFIG_UPDATE == 3
OP_GAME_COMMAND == 4
OP_HIT_FORWARD == 5
OP_KILL_CONFIRMED == 6
OP_REMOTE_SOUND == 7
OP_STATUS == 10
OP_HEARTBEAT_ACK == 11
OP_ACK == 20
\* Game command enum.
CMD_STOP == 0
CMD_START == 1
CMD_RESET == 2
\* Optimized WS server: size of the client table and the idle timeout.
MAX_WS_CLIENTS == 8
\* BLETarget: the length of message_queue.
BLE_QUEUE_LENGTH == 10
WS_CLIENT_TIMEOUT_MS == 30000

\* --------------------------------------------------------- integer widths
U8(x) == x % 256
U16(x) == x % 65536
\* A uint32_t is held as its 32-bit pattern read as a two's-complement integer:
\* values below 2^31 are themselves, values from 2^31 up are the value - 2^32.
\* A C int converted to uint32_t keeps its pattern.
U32(x) == x
\* a + b modulo 2^32
U32Add(a, b) ==
    IF a >= 0 /\ b >= 0 /\ b > 2147483647 - a
    THEN (a - 2147483647 - 1) + (b - 2147483647 - 1)
    ELSE IF a < 0 /\ b < 0 /\ b < (-2147483647 - 1) - a
    THEN (a + 2147483647 + 1) + (b + 2147483647 + 1)
    ELSE a + b
\* a - b modulo 2^32
U32Sub(a, b) == U32Add(a, IF b = -2147483647 - 1 THEN b ELSE 0 - b)
\* a < b and a >= b as unsigned comparisons
U32Lt(a, b) == IF (a >= 0) = (b >= 0) THEN a < b ELSE b < 0
U32Ge(a, b) == ~U32Lt(a, b)

\* ------------------------------------------------------------------ state
VARIABLES
    now,             \* esp_timer_get_time() / 1000, as uint32_t
    s_config,        \* DeviceConfig (identity)
    s_game_cfg,      \* GameConfig (rules)
    s_state,         \* GameStateData (live state)
    nvs_game,        \* NVS namespace "game": key -> stored value
    last_req_id,     \* req_id of the inbound frame process_message handled last: <<id>>, or << >> when it had none
    outbox,          \* the outbound WS frames that frame produced
    pc,              \* per polling task: position inside game_state_check_respawn
    respawn_reports, \* true returns of game_state_check_respawn since the last hit
    last_hit_fatal,  \* whether the last hit brought hearts_remaining to 0
    s_clients,       \* the WS client table: slot -> ws_client_t
    task,            \* per task inside the WS server: where it is in ws_handler / the stale sweep
    cb_state,        \* per session handle: the last value on_connect delivered for it
    rehandshake,     \* whether the last add_client replaced a row of its own handle
    last_send,       \* the last ws_server_send_raw_optimized call: its client_fd and whether it returned true
    bc,              \* the task inside ws_server_broadcast_raw_optimized: its position, whether it holds the
                     \* client-table mutex, the active_fds it copied, those still to send to, those sent to
    s_initialised,   \* espnow_comm: init has completed
    s_channel,       \* espnow_comm: the channel ESP-NOW is locked to, 0 for none
    s_rx_queue,      \* espnow_comm: the RX queue, created or not, and the envelopes it holds
    s_send_mutex,    \* espnow_comm: the send mutex exists
    s_peer_count,    \* espnow_comm: peers added since init
    esp_now,         \* the ESP-NOW driver: initialised or not, its peer list, recv_cb registered or not
    esp_call,        \* the last call into espnow_comm, with its argument and what it returned
    arrived,         \* datagrams of the right length handed to recv_cb so far
    last_delivered,  \* per source MAC, the sequence of the last envelope espnow_comm_receive returned
    s_retry_count,   \* wifi_core: disconnects since the counter was last cleared
    sta_bssid_set,   \* the station config of the Wi-Fi driver: locked to one AP (conf.sta.bssid_set)
    wifi_handler,    \* the last Wi-Fi event handler that ran: the event, the delay before connect, the driver calls
    streak,          \* station disconnects since the last got-IP
    sta_connected,   \* g_wifi_events: WIFI_EVENT_STA_CONNECTED_BIT
    g_wifi_channel,  \* the channel the station is on, for ESP-NOW
    sta_event,       \* the WIFI_EVENT_STA_DISCONNECTED the driver has posted and the event loop has
                     \* not handled yet, or "none"
    message_queue,   \* BLETarget: the FreeRTOS queue of received 16-bit messages
    lastReceivedMessage, \* BLETarget: the message received or fetched last
    hasNewMessage,   \* BLETarget: the flag the notification sets and the reads clear
    ble_call,        \* the last call into BLETarget and what it returned
    read_since_rx,   \* getMessage has been called and no notification was accepted since
    g_httpd,         \* the HTTP server behind g_httpd: running or not, its URI table, and how often
                     \* httpd_start and httpd_register_uri_handler have been called for it
    nvs_wifi,        \* the "wifi" NVS namespace: key -> stored string
    g_wifi_boot_mode,\* the mode wifi_evaluate_boot_mode selected at the last boot
    restarting,      \* esp_restart has been called and the next boot has not run yet
    http_resp,       \* the last response of the provisioning / clean HTTP handlers
    boot_ids,        \* device_id and player_id as they were when the last boot completed
    ids_touched,     \* a config_update or a factory reset has happened since the last boot completed
    HASH_XOR_SEED,   \* protocol_config.h: the seed of the 8-bit hash, fixed at build time
    HASH_OFFSET,     \* protocol_config.h: the offset of the 8-bit hash, fixed at build time
    encoded,         \* the codec and data value of the last createMessage16bit, or NoWord
    message,         \* the 16-bit word on the laser line
    decoded,         \* the outcome of the last validateMessage16bit of that word, or NoWord
    s_ws_mutex,      \* the task that holds the client-table mutex across a callback, or "free"
    cb_call,         \* the last callback the WS server invoked and whether the calling task
                     \* held the client-table mutex
    send_owner,      \* the task that holds s_send_mutex, or "free"
    send_task,       \* per sending task: where it is in espnow_comm_send, the time it has
                     \* waited for the mutex, and what its last call did
    s_mutex,         \* the task that holds the game-state mutex, or "free"
    cfg_pc,          \* where the httpd task is in handle_config_update
    last_writer,     \* the task of the last write to identity, rules or live state, and
                     \* whether it held the mutex
    shot_frame,      \* the last shot_fired frame emitted: by which path, the count it carries, and
                     \* whether the statistics have been reset since
    status_frame,    \* the last status built: the shots count it reports
    last_frame,      \* the last control frame the HTTP server received on the /ws endpoint
    hs               \* the last handshake: at its arrival the row count, whether its handle had a row and how many other
                     \* handles were stale; and whether its add_client found no slot

gameVars == <<s_config, s_game_cfg, s_state, nvs_game, last_req_id, outbox, pc, respawn_reports, last_hit_fatal>>
wsVars == <<s_clients, task, cb_state, rehandshake, hs, last_send, bc, last_frame>>
espVars == <<s_initialised, s_channel, s_rx_queue, s_send_mutex, s_peer_count, esp_now, esp_call,
             arrived, last_delivered>>
wifiVars == <<s_retry_count, sta_bssid_set, wifi_handler, streak, sta_connected, g_wifi_channel, g_httpd>>
bootVars == <<nvs_wifi, g_wifi_boot_mode, restarting, http_resp, boot_ids, ids_touched>>
shotVars == <<shot_frame, status_frame>>
codecVars == <<HASH_XOR_SEED, HASH_OFFSET, encoded, message, decoded>>
lockVars == <<s_mutex, cfg_pc, last_writer>>
sendVars == <<send_owner, send_task>>
cbVars == <<s_ws_mutex, cb_call>>
eventVars == <<sta_event>>
bleVars == <<message_queue, lastReceivedMessage, hasNewMessage, ble_call, read_since_rx>>
sysVars == <<wifiVars, bootVars, shotVars, codecVars, lockVars, sendVars, cbVars, eventVars, bleVars>>
vars == <<now, gameVars, wsVars, espVars, sysVars>>

\* Tasks that call the public game_state_check_respawn: the WS client task,
\* which sends respawn_complete, and the application loop, which drives
\* ws_server_broadcast_respawn.
Pollers == {"ws_client_task", "app_task"}

\* A JSON object is a function from its keys to their values.
Has(m, k) == k \in DOMAIN m

\* cJSON_IsTrue(cJSON_GetObjectItem(m, k))
IsTrue(m, k) == Has(m, k) /\ m[k] = TRUE

\* ------------------------------------------------------------ game config
\* a clamp that only steps down by one above the upper limit
clamp_past(v, lo, hi) == IF v < lo THEN lo ELSE IF v > hi THEN v - 1 ELSE v
\* clamp8 / clamp16 of game_state_apply_game_config
clamp(v, lo, hi) == IF v < lo THEN lo ELSE IF v > hi THEN hi ELSE v
\* clamp_u32
clamp_u32(v, lo, hi) == IF U32Lt(v, lo) THEN lo ELSE IF U32Lt(hi, v) THEN hi ELSE v

\* game_state_apply_game_config: the per-field clamp of a GameConfig.
game_state_apply_game_config(cfg) ==
    [cfg EXCEPT !.max_hearts = clamp(@, 1, 99),
                !.time_limit_s = clamp(@, 0, 7200),
                !.score_to_win = clamp(@, 0, 65535),
                !.respawn_cooldown_ms = clamp_u32(@, 0, 30000),
                !.invulnerability_ms = clamp(@, 0, 30000),
                !.mag_capacity = clamp(@, 0, 255),
                !.max_ammo = clamp(@, 0, 65535),
                !.reload_time_ms = clamp(@, 0, 30000),
                !.shot_rate_limit_ms = clamp(@, 50, 2000)]

DefaultGameConfig ==
    [max_hearts |-> 5, respawn_cooldown_ms |-> 5000, invulnerability_ms |-> 500,
     kill_score |-> 1, hit_score |-> 1, assist_score |-> 0, score_to_win |-> 0,
     time_limit_s |-> 0, overtime_enabled |-> FALSE, sudden_death |-> FALSE,
     max_ammo |-> 0, mag_capacity |-> 0, reload_time_ms |-> 0,
     shot_rate_limit_ms |-> 100, team_play |-> FALSE,
     friendly_fire_enabled |-> FALSE, unlimited_ammo |-> TRUE,
     unlimited_respawn |-> TRUE, random_teams_on_start |-> FALSE,
     hit_sound_enabled |-> TRUE]

\* game_state_load_default_game_config
game_state_load_default_game_config == game_state_apply_game_config(DefaultGameConfig)

\* -------------------------------------------------------------- live state
ZeroState ==
    [shots_fired |-> 0, hits_landed |-> 0, kills |-> 0, deaths |-> 0,
     friendly_fire_count |-> 0, rx_count |-> 0, tx_count |-> 0, last_rx_ms |-> 0,
     hearts_remaining |-> 0, respawning |-> FALSE, respawn_end_time_ms |-> 0,
     game_start_time_ms |-> 0, last_heartbeat_ms |-> 0, server_connected |-> FALSE]

\* game_state_reset_runtime: memset(&s_state, 0), then hearts = max_hearts.
game_state_reset_runtime(st, cfg) ==
    [[k \in DOMAIN st |-> ZeroState[k]] EXCEPT !.hearts_remaining = cfg.max_hearts]

\* game_state_reset_stats
game_state_reset_stats(st, cfg) ==
    [st EXCEPT !.kills = 0, !.deaths = 0, !.shots_fired = 0, !.hits_landed = 0,
               !.friendly_fire_count = 0, !.hearts_remaining = cfg.max_hearts,
               !.rx_count = 0, !.tx_count = 0, !.last_rx_ms = 0]

\* game_state_record_death with the decrement of hearts_remaining unguarded
game_state_record_death_unguarded(st, cfg, t) ==
    [st EXCEPT !.deaths = U32Add(@, 1),
               !.hearts_remaining = U8(@ - 1),
               !.respawning = TRUE,
               !.respawn_end_time_ms = U32Add(t, cfg.respawn_cooldown_ms)]
\* game_state_record_death
game_state_record_death(st, cfg, t) ==
    [st EXCEPT !.deaths = U32Add(@, 1),
               !.hearts_remaining = IF @ > 0 THEN @ - 1 ELSE @,
               !.respawning = TRUE,
               !.respawn_end_time_ms = U32Add(t, cfg.respawn_cooldown_ms)]

\* game_state_record_kill
game_state_record_kill(st) == [st EXCEPT !.kills = U32Add(@, 1)]

\* game_state_record_shot
game_state_record_shot(st) == [st EXCEPT !.shots_fired = U32Add(@, 1)]

\* game_state_record_hit
game_state_record_hit(st) == [st EXCEPT !.hits_landed = U32Add(@, 1)]

\* game_state_record_friendly_fire
game_state_record_friendly_fire(st) == [st EXCEPT !.friendly_fire_count = U32Add(@, 1)]

\* game_state_set_connected
game_state_set_connected(st, connected) == [st EXCEPT !.server_connected = connected]

\* The unlocked test at the head of game_state_check_respawn.
RespawnExpired(st, t) == st.respawning /\ U32Ge(t, st.respawn_end_time_ms)

\* The locked body of game_state_check_respawn.
game_state_check_respawn_commit(st, cfg) ==
    [st EXCEPT !.respawning = FALSE, !.hearts_remaining = cfg.max_hearts]

\* ----------------------------------------------------------------- identity
\* An erased NVS namespace holds no keys.
EmptyNvs == [k \in {} |-> 0]

\* game_state_save_ids: the keys written to the "game" namespace.
game_state_save_ids(dev, nvs) ==
    LET ids == [device_id_u8 |-> dev.device_id, player_id_u8 |-> dev.player_id,
                team_id_u8 |-> dev.team_id, color_u32 |-> dev.color_rgb]
        name == IF dev.device_name # "" THEN [device_name |-> dev.device_name]
                ELSE IF Has(nvs, "device_name") THEN [device_name |-> nvs.device_name]
                ELSE EmptyNvs
    IN  ids @@ name

\* --------------------------------------------------------- admin dispatcher
\* handle_config_update: the identity fields written through game_state_get_config_mut.
ConfigUpdateIdentity(dev, m) ==
    [dev EXCEPT
        !.device_name = IF Has(m, "device_name") THEN m.device_name ELSE @,
        !.device_id = IF Has(m, "device_id") THEN U8(m.device_id) ELSE @,
        !.player_id = IF Has(m, "player_id") THEN U8(m.player_id) ELSE @,
        !.team_id = IF Has(m, "team_id") THEN U8(m.team_id) ELSE @,
        !.color_rgb = IF Has(m, "color_rgb") THEN U32(m.color_rgb) ELSE @]

\* handle_config_update: the rules written through game_state_get_game_config_mut.
ConfigUpdateRules(cfg, m) ==
    [cfg EXCEPT
        !.max_hearts = IF Has(m, "spawn_hearts") THEN U8(m.spawn_hearts)
                       ELSE IF Has(m, "max_hearts") THEN U8(m.max_hearts) ELSE @,
        !.respawn_cooldown_ms = IF Has(m, "respawn_time_s") THEN U32(m.respawn_time_s * 1000) ELSE @,
        !.unlimited_respawn = IF Has(m, "enable_hearts") THEN ~IsTrue(m, "enable_hearts") ELSE @,
        !.friendly_fire_enabled = IF Has(m, "friendly_fire") THEN IsTrue(m, "friendly_fire") ELSE @,
        !.max_ammo = IF Has(m, "max_ammo") THEN U16(m.max_ammo) ELSE @,
        !.reload_time_ms = IF Has(m, "reload_time_ms") THEN U16(m.reload_time_ms) ELSE @,
        !.unlimited_ammo = IF Has(m, "enable_ammo") THEN ~IsTrue(m, "enable_ammo") ELSE @,
        !.time_limit_s = IF Has(m, "game_duration_s") THEN U16(m.game_duration_s) ELSE @]

\* ws_server_broadcast_game_state -> ws_server_send_status -> ws_server_broadcast
StatusBroadcast == [op |-> OP_STATUS, bcast |-> TRUE]

\* handle_config_update
handle_config_update(m) ==
    LET base == IF IsTrue(m, "reset_to_defaults")
                THEN game_state_load_default_game_config ELSE s_game_cfg
        dev == ConfigUpdateIdentity(s_config, m)
    IN  /\ s_config' = dev
        /\ s_game_cfg' = ConfigUpdateRules(base, m)
        /\ nvs_game' = game_state_save_ids(dev, nvs_game)
        /\ s_state' = s_state
        /\ outbox' = <<StatusBroadcast>>

\* handle_game_command
handle_game_command(m) ==
    IF ~Has(m, "command")
    THEN /\ outbox' = << >>
         /\ UNCHANGED <<s_config, s_game_cfg, s_state, nvs_game>>
    ELSE /\ s_state' = IF m.command = CMD_RESET
                       THEN game_state_reset_runtime(
                                game_state_reset_stats(s_state, s_game_cfg), s_game_cfg)
                       ELSE IF m.command = CMD_START
                       THEN game_state_reset_runtime(s_state, s_game_cfg)
                       ELSE s_state
         /\ outbox' = <<StatusBroadcast>>
         /\ UNCHANGED <<s_config, s_game_cfg, nvs_game>>

\* The inbound half of the OpCode registry: the type strings and the opcode of
\* each.
RegistryTypes ==
    {"get_status", "heartbeat", "config_update", "game_command", "hit_forward",
     "kill_confirmed", "remote_sound"}

RegistryOp(t) ==
    CASE t = "get_status" -> OP_GET_STATUS
      [] t = "heartbeat" -> OP_HEARTBEAT
      [] t = "config_update" -> OP_CONFIG_UPDATE
      [] t = "game_command" -> OP_GAME_COMMAND
      [] t = "hit_forward" -> OP_HIT_FORWARD
      [] t = "kill_confirmed" -> OP_KILL_CONFIRMED
      [] t = "remote_sound" -> OP_REMOTE_SOUND

\* process_message: the opcode a frame is dispatched under.
DispatchOp(m) ==
    LET op == IF Has(m, "op") THEN m.op ELSE 0
    IN  IF op # 0 THEN op
        ELSE IF ~Has(m, "type") THEN 0
        ELSE IF m.type = "get_status" THEN OP_GET_STATUS
        ELSE IF m.type = "heartbeat" THEN OP_HEARTBEAT
        ELSE IF m.type = "config_update" THEN OP_CONFIG_UPDATE
        ELSE 0

\* process_message
process_message(fd, m) ==
    LET op == DispatchOp(m)
    IN  /\ last_req_id' = (IF Has(m, "req_id") THEN <<m.req_id>> ELSE << >>)
        /\ CASE op = OP_GET_STATUS ->
                  /\ outbox' = <<[op |-> OP_STATUS, to |-> fd]>>
                  /\ UNCHANGED <<s_config, s_game_cfg, s_state, nvs_game>>
             [] op = OP_HEARTBEAT ->
                  /\ outbox' = <<[op |-> OP_HEARTBEAT_ACK, to |-> fd]>>
                  /\ UNCHANGED <<s_config, s_game_cfg, s_state, nvs_game>>
             [] op = OP_CONFIG_UPDATE -> handle_config_update(m)
             [] op = OP_GAME_COMMAND -> handle_game_command(m)
             [] op = OP_KILL_CONFIRMED ->
                  /\ s_state' = game_state_record_kill(s_state)
                  /\ outbox' = <<StatusBroadcast>>
                  /\ UNCHANGED <<s_config, s_game_cfg, nvs_game>>
             [] OTHER ->
                  /\ outbox' = << >>
                  /\ UNCHANGED <<s_config, s_game_cfg, s_state, nvs_game>>

\* --------------------------------------------------- WS client table
\* Tasks that enter the WS server: the httpd task runs ws_handler, one request
\* at a time; the timer task calls ws_server_cleanup_stale_optimized and the
\* send path.
WsTasks == {"httpd", "timer"}

Slots == 1..MAX_WS_CLIENTS

\* init_client_array
init_client_array ==
    [i \in Slots |-> [fd |-> -1, active |-> FALSE, last_activity_ms |-> 0,
                      supports_binary |-> FALSE]]

\* The lowest slot of a set of slots, or 0 (the code's -1) when it is empty.
FirstSlot(S) == IF S = {} THEN 0 ELSE CHOOSE i \in S : \A j \in S : i <= j

\* find_client_slot
find_client_slot(tbl) == FirstSlot({i \in Slots : ~tbl[i].active})

\* find_client_by_fd
find_client_by_fd(tbl, fd) == FirstSlot({i \in Slots : tbl[i].active /\ tbl[i].fd = fd})

\* count_active_clients_unsafe
count_active_clients_unsafe(tbl) == Cardinality({i \in Slots : tbl[i].active})

\* remove_stale_fd_unsafe that removes nothing
remove_stale_fd_unsafe_noop(tbl, fd) == tbl
\* remove_stale_fd_unsafe: deactivates the first active row of fd
remove_stale_fd_unsafe(tbl, fd) ==
    LET slot == find_client_by_fd(tbl, fd) IN
    IF slot = 0 THEN tbl
    ELSE [tbl EXCEPT ![slot].active = FALSE, ![slot].fd = -1]

\* add_client that, finding no free slot, takes over the first row
add_client_taking_first_row(tbl, fd, supports_binary, t) ==
    LET cleared == remove_stale_fd_unsafe(tbl, fd)
        free == find_client_slot(cleared)
        slot == IF free = 0 THEN 1 ELSE free IN
    [cleared EXCEPT ![slot] = [fd |-> fd, active |-> TRUE, last_activity_ms |-> t,
                               supports_binary |-> supports_binary]]
\* add_client without the removal of the handle's existing row
add_client_keeping_old_row(tbl, fd, supports_binary, t) ==
    LET slot == find_client_slot(tbl) IN
    IF slot = 0 THEN tbl
    ELSE [tbl EXCEPT ![slot] = [fd |-> fd, active |-> TRUE, last_activity_ms |-> t,
                                supports_binary |-> supports_binary]]
\* add_client, critical section: the table after the call
add_client(tbl, fd, supports_binary, t) ==
    LET cleared == remove_stale_fd_unsafe(tbl, fd)
        slot == find_client_slot(cleared) IN
    IF slot = 0 THEN cleared
    ELSE [cleared EXCEPT ![slot] = [fd |-> fd, active |-> TRUE, last_activity_ms |-> t,
                                    supports_binary |-> supports_binary]]

\* add_client notifies on_connect(fd, true) iff it found a slot
add_client_notifies(tbl, fd) == find_client_slot(remove_stale_fd_unsafe(tbl, fd)) # 0

\* remove_client, critical section: the table after the call
remove_client(tbl, fd) ==
    LET slot == find_client_by_fd(tbl, fd) IN
    IF slot = 0 THEN tbl
    ELSE [tbl EXCEPT ![slot].active = FALSE, ![slot].fd = -1]

\* remove_client notifies on_connect(fd, false) iff it found the row
remove_client_notifies(tbl, fd) == find_client_by_fd(tbl, fd) # 0

\* update_client_activity
update_client_activity(tbl, fd, t) ==
    LET slot == find_client_by_fd(tbl, fd) IN
    IF slot = 0 THEN tbl ELSE [tbl EXCEPT ![slot].last_activity_ms = t]

\* ws_server_cleanup_stale_optimized, first half: the fds of the rows idle for
\* more than the timeout, in slot order.
RECURSIVE StaleFrom(_, _, _)
StaleFrom(tbl, t, i) ==
    IF i > MAX_WS_CLIENTS THEN << >>
    ELSE IF tbl[i].active
            /\ U32Lt(WS_CLIENT_TIMEOUT_MS, U32Sub(t, tbl[i].last_activity_ms))
         THEN <<tbl[i].fd>> \o StaleFrom(tbl, t, i + 1)
         ELSE StaleFrom(tbl, t, i + 1)

stale_fds(tbl, t) == StaleFrom(tbl, t, 1)

IdleTask == [pc |-> "idle", stale |-> << >>, fd |-> -1]

\* ws_server_broadcast_raw_optimized, the loop under the mutex: the fds of the
\* active rows, in slot order.
RECURSIVE ActiveFrom(_, _)
ActiveFrom(tbl, i) ==
    IF i > MAX_WS_CLIENTS THEN << >>
    ELSE IF tbl[i].active THEN <<tbl[i].fd>> \o ActiveFrom(tbl, i + 1)
         ELSE ActiveFrom(tbl, i + 1)

active_fds(tbl) == ActiveFrom(tbl, 1)

\* The handles that hold an active row.
ActiveSet(tbl) == {tbl[i].fd : i \in {j \in Slots : tbl[j].active}}

IdleBroadcast == [pc |-> "idle", locked |-> FALSE, snap |-> {}, fds |-> << >>, sent |-> {}]

\* ------------------------------------------------------------------- inputs
\* Values rand_u8() returns for the generated device id.
RandIds == {7}

\* Session handles of the admin clients that send frames.
Fds == {1}

\* config_update payloads: rule and identity fields with in-range, out-of-range
\* and sentinel values.
ConfigPayloads ==
    {[max_hearts |-> v] : v \in {-1, 0, 1, 10}}
    \cup {[spawn_hearts |-> 3, max_hearts |-> 10],
          [respawn_time_s |-> 31], [reload_time_ms |-> 40000, game_duration_s |-> 8000],
          [reset_to_defaults |-> TRUE], [team_id |-> 2, color_rgb |-> 255]}

\* game_command payloads.
CommandPayloads == {[command |-> c] : c \in {CMD_STOP, CMD_START, CMD_RESET}}

WithOp(o, payloads) == {[op |-> o] @@ p : p \in payloads}

\* Frames that drive the engine without touching the rules.
EngineFrames ==
    WithOp(OP_GAME_COMMAND, CommandPayloads)

\* Frames that reconfigure and reset the engine.
ConfigFrames ==
    WithOp(OP_CONFIG_UPDATE, ConfigPayloads)
    \cup WithOp(OP_GAME_COMMAND, CommandPayloads)
    \cup {[op |-> OP_KILL_CONFIRMED]}

\* Every opcode of the registry and one outside it, by op and by type string
\* alone, each with and without a req_id.
ProtocolPayloads ==
    {[op |-> o] : o \in {OP_GET_STATUS, OP_HEARTBEAT, OP_HIT_FORWARD,
                          OP_KILL_CONFIRMED, OP_REMOTE_SOUND, 99}}
    \cup {[type |-> t] : t \in {"get_status", "heartbeat", "config_update",
                                 "game_command", "hit_forward", "kill_confirmed",
                                 "remote_sound"}}
    \cup {[op |-> OP_HEARTBEAT, type |-> "get_status"],
          [op |-> OP_GET_STATUS, type |-> "kill_confirmed"]}
    \cup WithOp(OP_CONFIG_UPDATE, {[max_hearts |-> 3], [reset_to_defaults |-> TRUE],
                                   [team_id |-> 2, color_rgb |-> 255]})
    \cup WithOp(OP_GAME_COMMAND, CommandPayloads)
    \cup {[op |-> OP_GAME_COMMAND]}

ReqIds == {"r1", "r2"}

ProtocolFrames ==
    ProtocolPayloads \cup {[req_id |-> r] @@ p : r \in ReqIds, p \in ProtocolPayloads}

\* Session handles of the WS clients of the optimized server.
WsFds == {1, 2}

\* Session handles of a crowd one larger than the table. A new connection is
\* given the lowest descriptor that is not in use.
FullFds == 1..(MAX_WS_CLIENTS + 1)

\* Source addresses of peer datagrams.
Macs == {"aa", "bb"}

\* PlayerMessage.timestamp_ms values of peer datagrams: two small ones and
\* 0xFFFFFFFF.
Seqs == {1, 2, -1}

\* espnow_comm_init called with a null config.
NoConfig == [null |-> TRUE]

\* EspnowCommConfig values.
EspnowConfigs ==
    {NoConfig} \cup {[channel |-> c, prefer_wifi |-> FALSE, set_pmk |-> TRUE] : c \in {0, 1, 6}}

\* Values of esp_random() & 0xFF at a boot.
BootRands == {0, 7, 9}

\* Strings of the provisioning form, as sequences of characters: field values
\* a browser can send, among them an SSID with a space and one of the 32
\* characters the form allows.
SsidValues == {<< >>, <<"L", "a", "b">>, <<"a", " ", "b">>, [i \in 1..32 |-> "x"]}
PassValues == {<< >>, <<"s">>}
NameValues == {<< >>, <<"A">>}
RoleValues == {<< >>, <<"w">>}

\* The provisioning forms: ssid always, pass, name and role when given.
ProvisioningForms ==
    {[ssid |-> v] : v \in SsidValues}
    \cup {[ssid |-> v, pass |-> q] : v \in SsidValues, q \in PassValues}
    \cup {[ssid |-> v, pass |-> q, name |-> n, role |-> r] :
             v \in SsidValues, q \in PassValues, n \in NameValues, r \in RoleValues}

\* config_update payloads that change identity fields.
IdentityPayloads ==
    {[device_id |-> 3], [player_id |-> 0, team_id |-> 2], [color_rgb |-> 255],
     [device_name |-> "x"], [device_name |-> ""]}

\* Channels of the access points the station associates with.
ApChannels == {1, 6, 11}

StatsSum(st) == st.shots_fired + st.hits_landed + st.kills + st.friendly_fire_count

\* GameConfig values handed to game_state_apply_game_config: below, at,
\* inside and above each limit (-1 is 0xFFFFFFFF).
GameConfigInputs ==
    {[DefaultGameConfig EXCEPT !.max_hearts = h, !.time_limit_s = t, !.respawn_cooldown_ms = r,
                               !.shot_rate_limit_ms = q, !.reload_time_ms = l] :
        h \in {0, 50, 255}, t \in {0, 100, 65535}, r \in {0, 30001, -1},
        q \in {49, 100, 2001}, l \in {0, 40000}}

\* Milliseconds left before the 32-bit clock wraps, after a long uptime
UptimeBeforeWrap == 3000

\* Tasks that call espnow_comm_send
Senders == {"app_task", "ws_task", "timer_task"}
IdleSender == [pc |-> "idle", waited_ms |-> 0, ret |-> "none", transmitted |-> FALSE]
SEND_MUTEX_WAIT_MS == 50
\* how long a blocked task may sleep before it is woken or times out
WaitSlices == {20, 30}

\* Inputs of the laser codec
NoWord == [none |-> TRUE]
Codecs == {"8+8", "12+4"}
HashConstants == {<<0, 0>>, <<0, 91>>, <<165, 91>>, <<165, 165>>}
WideValues == {4096, 6747, 65280, 65535}
DataValues(c) == (IF c = "8+8" THEN 0..255 ELSE 0..4095) \cup WideValues
LineWords == {0, 65535, 42330, 23205}

\* The endpoints of the station-mode HTTP server: the page, the factory
\* reset, the REST API and the WebSocket.
Endpoints == {"/", "/clean", "/api", "/ws"}

\* g_httpd before the first httpd_start.
NoServer ==
    [running |-> FALSE, uris |-> {}, start_calls |-> 0, reg_calls |-> [u \in Endpoints |-> 0]]

\* --------------------------------------------------------------------- Init
\* game_state_init on a device whose "game" namespace is empty.
InitProgram ==
    /\ now = 0
    /\ \E r \in RandIds :
         s_config = [device_id |-> r, player_id |-> r, team_id |-> 0,
                     color_rgb |-> 0, device_name |-> "", role |-> "weapon"]
    /\ s_game_cfg = game_state_load_default_game_config
    /\ s_state = game_state_reset_runtime(ZeroState, game_state_load_default_game_config)
    /\ nvs_game = EmptyNvs
    /\ last_req_id = << >>
    /\ outbox = << >>
    /\ pc = [p \in Pollers |-> "idle"]
    /\ respawn_reports = 0
    /\ last_hit_fatal = FALSE
    /\ s_clients = init_client_array
    /\ task = [t \in WsTasks |-> IdleTask]
    /\ cb_state = [fd \in WsFds \cup FullFds |-> FALSE]
    /\ rehandshake = FALSE
    /\ hs = [count |-> 0, tracked |-> FALSE, evicted |-> 0, refused |-> FALSE]
    /\ last_send = [fd |-> -1, ok |-> FALSE]
    /\ bc = IdleBroadcast
    /\ last_frame = [fd |-> -1, type |-> "NONE"]
    /\ s_ws_mutex = "free"
    /\ cb_call = [fn |-> "none", fd |-> -1, locked |-> FALSE]
    /\ send_owner = "free"
    /\ send_task = [t \in Senders |-> IdleSender]
    /\ s_mutex = "free"
    /\ cfg_pc = "idle"
    /\ last_writer = [task |-> "none", held |-> TRUE]
    /\ shot_frame = [via |-> "none", n |-> 0, fresh |-> FALSE]
    /\ status_frame = [built |-> FALSE, shots |-> 0]
    /\ nvs_wifi = EmptyNvs
    /\ g_wifi_boot_mode = "WIFI_BOOT_PROVISIONING"
    /\ restarting = FALSE
    /\ http_resp = "none"
    /\ boot_ids = <<s_config.device_id, s_config.player_id>>
    /\ ids_touched = FALSE
    /\ s_retry_count = 0
    /\ sta_bssid_set = FALSE
    /\ wifi_handler = [event |-> "none", backoff_ms |-> 0, calls |-> << >>]
    /\ streak = 0
    /\ sta_connected = FALSE
    /\ g_wifi_channel = 1
    /\ g_httpd = NoServer
    /\ sta_event = "none"
    /\ message_queue = << >>
    /\ lastReceivedMessage = 0
    /\ hasNewMessage = FALSE
    /\ ble_call = [fn |-> "none", ret |-> FALSE, message |-> 0]
    /\ read_since_rx = FALSE
    /\ s_initialised = FALSE
    /\ s_channel = 0
    /\ s_rx_queue = [created |-> FALSE, items |-> << >>]
    /\ s_send_mutex = FALSE
    /\ s_peer_count = 0
    /\ esp_now = [up |-> FALSE, peers |-> {}, recv_cb |-> FALSE]
    /\ esp_call = [fn |-> "none", arg |-> NoConfig, ret |-> "ESP_OK"]
    /\ arrived = 0
    /\ last_delivered = [m \in Macs |-> << >>]

\* No word on the laser line yet.
InitLine ==
    /\ encoded = NoWord
    /\ message = 0
    /\ decoded = NoWord

Init ==
    /\ InitProgram
    /\ HASH_XOR_SEED = 0
    /\ HASH_OFFSET = 0
    /\ InitLine

\* A build with any of the hash constants.
InitHash ==
    /\ InitProgram
    /\ \E k \in HashConstants : HASH_XOR_SEED = k[1] /\ HASH_OFFSET = k[2]
    /\ InitLine


\* ------------------------------------------------------------------ actions
\* ws_handler, data frame: process_message(fd, msg).
WsDataFrame(fd, m) ==
    /\ DispatchOp(m) = OP_KILL_CONFIRMED => StatsSum(s_state) < MaxStats
    /\ process_message(fd, m)
    /\ UNCHANGED <<now, pc, respawn_reports, last_hit_fatal>>
    /\ UNCHANGED <<wsVars, espVars, sysVars>>

\* handle_you_were_hit: game_state_record_death().
Hit ==
    /\ s_state.deaths < MaxDeaths
    /\ s_state' = game_state_record_death(s_state, s_game_cfg, now)
    /\ respawn_reports' = 0
    /\ last_hit_fatal' = (s_state'.hearts_remaining = 0)
    /\ UNCHANGED <<now, s_config, s_game_cfg, nvs_game, last_req_id, outbox, pc>>
    /\ UNCHANGED <<wsVars, espVars, sysVars>>

\* ws_client_send_shot_fired: game_state_record_shot().
Shot ==
    /\ StatsSum(s_state) < MaxStats
    /\ s_state' = game_state_record_shot(s_state)
    /\ UNCHANGED <<now, s_config, s_game_cfg, nvs_game, last_req_id, outbox, pc, respawn_reports, last_hit_fatal>>
    /\ UNCHANGED <<wsVars, espVars, sysVars>>

\* handle_hit_confirmed: game_state_record_hit().
HitConfirmed ==
    /\ StatsSum(s_state) < MaxStats
    /\ s_state' = game_state_record_hit(s_state)
    /\ UNCHANGED <<now, s_config, s_game_cfg, nvs_game, last_req_id, outbox, pc, respawn_reports, last_hit_fatal>>
    /\ UNCHANGED <<wsVars, espVars, sysVars>>

\* handle_hit_invalid: game_state_record_friendly_fire().
HitInvalid ==
    /\ StatsSum(s_state) < MaxStats
    /\ s_state' = game_state_record_friendly_fire(s_state)
    /\ UNCHANGED <<now, s_config, s_game_cfg, nvs_game, last_req_id, outbox, pc, respawn_reports, last_hit_fatal>>
    /\ UNCHANGED <<wsVars, espVars, sysVars>>

\* WEBSOCKET_EVENT_CONNECTED / DISCONNECTED: game_state_set_connected().
SetConnected(c) ==
    /\ s_state' = game_state_set_connected(s_state, c)
    /\ UNCHANGED <<now, s_config, s_game_cfg, nvs_game, last_req_id, outbox, pc, respawn_reports, last_hit_fatal>>
    /\ UNCHANGED <<wsVars, espVars, sysVars>>

\* The millisecond clock advances.
Tick ==
    /\ now < MaxTicks * PollPeriodMs
    /\ now' = U32Add(now, PollPeriodMs)
    /\ UNCHANGED <<s_config, s_game_cfg, s_state, nvs_game, last_req_id, outbox, pc, respawn_reports, last_hit_fatal>>
    /\ UNCHANGED <<wsVars, espVars, sysVars>>

\* game_state_check_respawn, first half: the test of respawning and of the
\* expiry, made without the mutex. A false test returns false.
CheckRespawnTest(p) ==
    /\ pc[p] = "idle"
    /\ pc' = [pc EXCEPT ![p] = IF RespawnExpired(s_state, now) THEN "commit" ELSE "idle"]
    /\ UNCHANGED <<now, s_config, s_game_cfg, s_state, nvs_game, last_req_id, outbox, respawn_reports, last_hit_fatal>>
    /\ UNCHANGED <<wsVars, espVars, sysVars>>

\* game_state_check_respawn, second half: LOCK, clear, refill, UNLOCK, return true.
CheckRespawnCommit(p) ==
    /\ pc[p] = "commit"
    /\ s_state' = game_state_check_respawn_commit(s_state, s_game_cfg)
    /\ respawn_reports' = respawn_reports + 1
    /\ pc' = [pc EXCEPT ![p] = "idle"]
    /\ UNCHANGED <<now, s_config, s_game_cfg, nvs_game, last_req_id, outbox, last_hit_fatal>>
    /\ UNCHANGED <<wsVars, espVars, sysVars>>

\* ws_handler, handshake (HTTP_GET), up to the end of the first critical
\* section of ws_server_cleanup_stale_optimized: the stale fds are collected.
WsHandshake(fd) ==
    /\ task["httpd"].pc = "idle"
    /\ task' = [task EXCEPT !["httpd"] =
                  [pc |-> "sweep", stale |-> stale_fds(s_clients, now), fd |-> fd]]
    /\ hs' = [count |-> count_active_clients_unsafe(s_clients),
              tracked |-> find_client_by_fd(s_clients, fd) # 0,
              evicted |-> Cardinality({i \in Slots :
                             /\ s_clients[i].active /\ s_clients[i].fd # fd
                             /\ U32Lt(WS_CLIENT_TIMEOUT_MS, U32Sub(now, s_clients[i].last_activity_ms))}),
              refused |-> FALSE]
    /\ UNCHANGED <<now, gameVars, espVars, sysVars, s_clients, cb_state, rehandshake, last_send, bc, last_frame>>

\* ws_server_cleanup_stale_optimized called from the timer task: the stale
\* fds are collected.
WsSweepStart ==
    /\ task["timer"].pc = "idle"
    /\ task' = [task EXCEPT !["timer"] =
                  [pc |-> "sweep", stale |-> stale_fds(s_clients, now), fd |-> -1]]
    /\ UNCHANGED <<now, gameVars, espVars, sysVars, s_clients, cb_state, rehandshake, hs, last_send, bc, last_frame>>

\* ws_server_cleanup_stale_optimized, second half, one iteration:
\* remove_client(stale_fds[i]) and its disconnect notification.
WsSweepRemove(t) ==
    /\ task[t].pc = "sweep"
    /\ task[t].stale # << >>
    /\ LET fd == Head(task[t].stale) IN
         /\ s_clients' = remove_client(s_clients, fd)
         /\ cb_state' = IF remove_client_notifies(s_clients, fd)
                        THEN [cb_state EXCEPT ![fd] = FALSE] ELSE cb_state
    /\ task' = [task EXCEPT ![t].stale = Tail(@)]
    /\ UNCHANGED <<now, gameVars, espVars, sysVars, rehandshake, hs, last_send, bc, last_frame>>

\* ws_handler, handshake, after the sweep: add_client(client_fd, true) and its
\* connect notification.
WsHandshakeAdd ==
    /\ task["httpd"].pc = "sweep"
    /\ task["httpd"].stale = << >>
    /\ LET fd == task["httpd"].fd IN
         /\ s_clients' = add_client(s_clients, fd, TRUE, now)
         /\ cb_state' = IF add_client_notifies(s_clients, fd)
                        THEN [cb_state EXCEPT ![fd] = TRUE] ELSE cb_state
         /\ rehandshake' = (find_client_by_fd(s_clients, fd) # 0)
         /\ hs' = [hs EXCEPT !.refused = ~add_client_notifies(s_clients, fd)]
    /\ task' = [task EXCEPT !["httpd"] = IdleTask]
    /\ UNCHANGED <<now, gameVars, espVars, sysVars, last_send, bc, last_frame>>

\* ws_server_cleanup_stale_optimized returns to the timer task.
WsSweepReturn ==
    /\ task["timer"].pc = "sweep"
    /\ task["timer"].stale = << >>
    /\ task' = [task EXCEPT !["timer"] = IdleTask]
    /\ UNCHANGED <<now, gameVars, espVars, sysVars, s_clients, cb_state, rehandshake, hs, last_send, bc, last_frame>>

\* ws_handler, data frame: update_client_activity, then on_message.
WsRecvData(fd) ==
    /\ task["httpd"].pc = "idle"
    /\ s_clients' = update_client_activity(s_clients, fd, now)
    /\ UNCHANGED <<now, gameVars, espVars, sysVars, task, cb_state, rehandshake, hs, last_send, bc, last_frame>>

\* ws_server_register_optimized: the /ws endpoint is registered with
\* .handle_ws_control_frames = false.
handle_ws_control_frames == FALSE

\* ws_handler, the HTTPD_WS_TYPE_PONG branch: update_client_activity.
ws_handler_pong(fd) ==
    /\ s_clients' = update_client_activity(s_clients, fd, now)
    /\ UNCHANGED cb_state

\* ws_handler, the HTTPD_WS_TYPE_CLOSE branch: remove_client and its
\* disconnect notification.
ws_handler_close(fd) ==
    /\ s_clients' = remove_client(s_clients, fd)
    /\ cb_state' = IF remove_client_notifies(s_clients, fd)
                   THEN [cb_state EXCEPT ![fd] = FALSE] ELSE cb_state

\* A PONG frame arrives on the /ws endpoint: the HTTP server passes a control
\* frame to ws_handler only when the endpoint asked for control frames.
WsRecvPong(fd) ==
    /\ task["httpd"].pc = "idle"
    /\ last_frame' = [fd |-> fd, type |-> "PONG"]
    /\ IF handle_ws_control_frames THEN ws_handler_pong(fd) ELSE UNCHANGED <<s_clients, cb_state>>
    /\ UNCHANGED <<now, gameVars, espVars, sysVars, task, rehandshake, hs, last_send, bc>>

\* A CLOSE frame arrives on the /ws endpoint: as for PONG, ws_handler sees it
\* only when the endpoint asked for control frames.
WsRecvClose(fd) ==
    /\ task["httpd"].pc = "idle"
    /\ last_frame' = [fd |-> fd, type |-> "CLOSE"]
    /\ IF handle_ws_control_frames THEN ws_handler_close(fd) ELSE UNCHANGED <<s_clients, cb_state>>
    /\ UNCHANGED <<now, gameVars, espVars, sysVars, task, rehandshake, hs, last_send, bc>>

\* ws_server_send_raw_optimized that refreshes the activity stamp whatever the
\* transport returned
WsSendAlwaysRefreshing(fd, ok) ==
    /\ s_clients' = update_client_activity(s_clients, fd, now)
    /\ last_send' = [fd |-> fd, ok |-> ok]
    /\ UNCHANGED <<now, gameVars, espVars, sysVars, task, cb_state, rehandshake, hs, bc, last_frame>>

\* ws_server_send_raw_optimized(client_fd, ...): the activity stamp is
\* refreshed only when httpd_ws_send_frame_async returned ESP_OK.
WsSend(fd, ok) ==
    /\ s_clients' = IF ok THEN update_client_activity(s_clients, fd, now) ELSE s_clients
    /\ last_send' = [fd |-> fd, ok |-> ok]
    /\ UNCHANGED <<now, gameVars, espVars, sysVars, task, cb_state, rehandshake, hs, bc, last_frame>>

\* The clock advances by just over half the idle timeout.
WsTick ==
    /\ now < MaxWsTicks * (WS_CLIENT_TIMEOUT_MS \div 2 + 1)
    /\ now' = U32Add(now, WS_CLIENT_TIMEOUT_MS \div 2 + 1)
    /\ UNCHANGED <<gameVars, wsVars, espVars, sysVars>>

\* ws_server_broadcast_raw_optimized that keeps the mutex after copying the
\* active fds
BcSnapshotKeepingMutex ==
    /\ bc.pc = "idle"
    /\ bc' = [pc |-> "send", locked |-> TRUE, snap |-> ActiveSet(s_clients),
              fds |-> active_fds(s_clients), sent |-> {}]
    /\ UNCHANGED <<now, gameVars, espVars, sysVars, s_clients, task, cb_state, rehandshake, hs, last_send, last_frame>>

\* ws_server_broadcast_raw_optimized, the critical section: the mutex is
\* taken, the fds of the active rows are copied, the mutex is released.
BcSnapshot ==
    /\ bc.pc = "idle"
    /\ bc' = [pc |-> "send", locked |-> FALSE, snap |-> ActiveSet(s_clients),
              fds |-> active_fds(s_clients), sent |-> {}]
    /\ UNCHANGED <<now, gameVars, espVars, sysVars, s_clients, task, cb_state, rehandshake, hs, last_send, last_frame>>

\* ws_server_broadcast_raw_optimized, one iteration of the send loop:
\* ws_server_send_raw_optimized(active_fds[i], ...), which refreshes the
\* activity stamp when the transport accepted the frame.
BcSend(ok) ==
    /\ bc.pc = "send"
    /\ bc.fds # << >>
    /\ LET fd == Head(bc.fds) IN
         /\ s_clients' = IF ok THEN update_client_activity(s_clients, fd, now) ELSE s_clients
         /\ last_send' = [fd |-> fd, ok |-> ok]
         /\ bc' = [bc EXCEPT !.fds = Tail(@), !.sent = @ \cup {fd}]
    /\ UNCHANGED <<now, gameVars, espVars, sysVars, task, cb_state, rehandshake, hs, last_frame>>

\* ws_server_broadcast_raw_optimized returns.
BcReturn ==
    /\ bc.pc = "send"
    /\ bc.fds = << >>
    /\ bc' = [bc EXCEPT !.pc = "idle"]
    /\ UNCHANGED <<now, gameVars, espVars, sysVars, s_clients, task, cb_state, rehandshake, hs, last_send, last_frame>>

\* ------------------------------------------------------------ espnow_comm
\* espnow_comm_init: xQueueCreate(16, sizeof(EspnowMessageEnvelope)).
RX_QUEUE_LEN == 16

\* recv_cb: xQueueSendFromISR on the RX queue. A full queue returns
\* errQUEUE_FULL and is left as it was.
xQueueSendFromISR(q, env) ==
    IF Len(q.items) < RX_QUEUE_LEN THEN [q EXCEPT !.items = Append(@, env)] ELSE q

\* espnow_comm_set_channel, the value of s_channel after the call;
\* ok is what esp_wifi_set_channel returned.
espnow_comm_set_channel(ch, channel, ok) ==
    IF channel = 0 THEN ch ELSE IF ok THEN channel ELSE ch

\* espnow_comm_init without the s_initialised test
EspnowInitAgain(config, init_ok, chan_ok) ==
    /\ esp_call' = [fn |-> "init", arg |-> config, ret |-> IF init_ok THEN "ESP_OK" ELSE "ESP_FAIL"]
    /\ IF ~init_ok
       THEN UNCHANGED <<s_initialised, s_channel, s_rx_queue, s_send_mutex, s_peer_count, esp_now>>
       ELSE /\ s_rx_queue' = [s_rx_queue EXCEPT !.created = TRUE]
            /\ s_send_mutex' = TRUE
            /\ esp_now' = [esp_now EXCEPT !.up = TRUE, !.recv_cb = TRUE]
            /\ s_peer_count' = 0
            /\ s_channel' = IF config = NoConfig THEN s_channel
                            ELSE espnow_comm_set_channel(s_channel, config.channel, chan_ok)
            /\ s_initialised' = TRUE
    /\ UNCHANGED <<now, gameVars, wsVars, sysVars, arrived, last_delivered>>

\* espnow_comm_init(config). init_ok is what esp_now_init returned
\* (ESP_ERR_ESPNOW_EXIST counts as success), chan_ok what
\* esp_wifi_set_channel returned.
EspnowInit(config, init_ok, chan_ok) ==
    /\ esp_call' = [fn |-> "init", arg |-> config,
                    ret |-> IF s_initialised \/ init_ok THEN "ESP_OK" ELSE "ESP_FAIL"]
    /\ IF s_initialised \/ ~init_ok
       THEN UNCHANGED <<s_initialised, s_channel, s_rx_queue, s_send_mutex, s_peer_count, esp_now>>
       ELSE /\ s_rx_queue' = [s_rx_queue EXCEPT !.created = TRUE]
            /\ s_send_mutex' = TRUE
            /\ esp_now' = [esp_now EXCEPT !.up = TRUE, !.recv_cb = TRUE]
            /\ s_peer_count' = 0
            /\ s_channel' = IF config = NoConfig THEN s_channel
                            ELSE espnow_comm_set_channel(s_channel, config.channel, chan_ok)
            /\ s_initialised' = TRUE
    /\ UNCHANGED <<now, gameVars, wsVars, sysVars, arrived, last_delivered>>

\* espnow_comm_add_peer(mac). ok is what esp_now_add_peer returned; it fails
\* on a driver that is not initialised.
EspnowAddPeer(mac, ok) ==
    /\ esp_call' = [fn |-> "add_peer", arg |-> NoConfig,
                    ret |-> IF mac \in esp_now.peers \/ (ok /\ esp_now.up) THEN "ESP_OK" ELSE "ESP_FAIL"]
    /\ IF mac \notin esp_now.peers /\ ok /\ esp_now.up
       THEN /\ esp_now' = [esp_now EXCEPT !.peers = @ \cup {mac}]
            /\ s_peer_count' = U8(s_peer_count + 1)
       ELSE UNCHANGED <<esp_now, s_peer_count>>
    /\ UNCHANGED <<now, gameVars, wsVars, sysVars, s_initialised, s_channel, s_rx_queue, s_send_mutex,
                   arrived, last_delivered>>

\* espnow_comm_clear_peers: esp_now_deinit, which drops the driver's peers and
\* callbacks.
EspnowClearPeers ==
    /\ esp_now' = [up |-> FALSE, peers |-> {}, recv_cb |-> FALSE]
    /\ s_initialised' = FALSE
    /\ s_peer_count' = 0
    /\ esp_call' = [fn |-> "clear_peers", arg |-> NoConfig, ret |-> "ESP_OK"]
    /\ UNCHANGED <<now, gameVars, wsVars, sysVars, s_channel, s_rx_queue, s_send_mutex, arrived, last_delivered>>

\* recv_cb(info, data, len) for a datagram from mac whose timestamp_ms is seq;
\* valid says that len is sizeof(PlayerMessage).
recv_cb(mac, seq, valid) ==
    /\ esp_now.up /\ esp_now.recv_cb
    /\ esp_call' = [fn |-> "recv_cb", arg |-> NoConfig, ret |-> "ESP_OK"]
    /\ IF valid /\ s_rx_queue.created
       THEN /\ s_rx_queue' = xQueueSendFromISR(s_rx_queue, [src_mac |-> mac, seq |-> seq])
            /\ arrived' = arrived + 1
       ELSE UNCHANGED <<s_rx_queue, arrived>>
    /\ UNCHANGED <<now, gameVars, wsVars, sysVars, s_initialised, s_channel, s_send_mutex, s_peer_count,
                   esp_now, last_delivered>>

\* espnow_comm_receive(out, ticks_to_wait): xQueueReceive; an empty queue
\* times out.
espnow_comm_receive ==
    /\ IF s_rx_queue.created /\ s_rx_queue.items # << >>
       THEN LET env == Head(s_rx_queue.items) IN
            /\ s_rx_queue' = [s_rx_queue EXCEPT !.items = Tail(@)]
            /\ last_delivered' = [last_delivered EXCEPT ![env.src_mac] = <<env.seq>>]
            /\ esp_call' = [fn |-> "receive", arg |-> NoConfig, ret |-> "true"]
       ELSE /\ esp_call' = [fn |-> "receive", arg |-> NoConfig, ret |-> "false"]
            /\ UNCHANGED <<s_rx_queue, last_delivered>>
    /\ UNCHANGED <<now, gameVars, wsVars, sysVars, s_initialised, s_channel, s_send_mutex, s_peer_count,
                   esp_now, arrived>>

\* -------------------------------------------------------------- wifi_core
MAX_RETRY_COUNT == 15

\* on_wifi_disconnect whose delay doubles without the 5000 ms cap
backoff_ms_doubling(n) ==
    IF n = 1 THEN 500 ELSE IF n = 2 THEN 1000 ELSE IF n = 3 THEN 2000 ELSE 4000

\* on_wifi_disconnect: the delay before the reconnect of retry number n.
backoff_ms(n) ==
    IF n = 1 THEN 500 ELSE IF n = 2 THEN 1000 ELSE IF n = 3 THEN 2000 ELSE 5000

\* on_wifi_disconnect that gives up after 14 retries
on_wifi_disconnect_early(get_config_ok) ==
    /\ streak < MaxStreak
    /\ streak' = streak + 1
    /\ sta_connected' = FALSE
    /\ IF s_retry_count + 1 < MAX_RETRY_COUNT - 1
       THEN /\ s_retry_count' = s_retry_count + 1
            /\ wifi_handler' = [event |-> "disconnect", backoff_ms |-> backoff_ms(s_retry_count + 1),
                                calls |-> <<"delay", "esp_wifi_set_ps", "esp_wifi_connect">>]
            /\ UNCHANGED sta_bssid_set
       ELSE /\ sta_bssid_set' = IF get_config_ok THEN FALSE ELSE sta_bssid_set
            /\ wifi_handler' = [event |-> "disconnect", backoff_ms |-> 500,
                                calls |-> <<"esp_wifi_stop", "delay", "esp_wifi_start",
                                            "esp_wifi_set_ps", "esp_wifi_connect">>]
            /\ s_retry_count' = 0
    /\ UNCHANGED <<now, gameVars, wsVars, espVars, bootVars, shotVars, codecVars, lockVars, sendVars, cbVars, bleVars, g_wifi_channel, g_httpd>>
    /\ sta_event' = "none"

\* on_wifi_disconnect that restarts the driver and leaves the reconnect to it
on_wifi_disconnect_no_connect(get_config_ok) ==
    /\ streak' = streak + 1
    /\ sta_connected' = FALSE
    /\ IF s_retry_count + 1 < MAX_RETRY_COUNT
       THEN /\ s_retry_count' = s_retry_count + 1
            /\ wifi_handler' = [event |-> "disconnect", backoff_ms |-> backoff_ms(s_retry_count + 1),
                                calls |-> <<"delay", "esp_wifi_set_ps", "esp_wifi_connect">>]
            /\ UNCHANGED sta_bssid_set
       ELSE /\ sta_bssid_set' = IF get_config_ok THEN FALSE ELSE sta_bssid_set
            /\ wifi_handler' = [event |-> "disconnect", backoff_ms |-> 500,
                                calls |-> <<"esp_wifi_stop", "delay", "esp_wifi_start",
                                            "esp_wifi_set_ps">>]
            /\ s_retry_count' = 0
    /\ UNCHANGED <<now, gameVars, wsVars, espVars, bootVars, shotVars, codecVars, lockVars, sendVars, cbVars, bleVars, g_wifi_channel, g_httpd>>
    /\ sta_event' = "none"

\* on_wifi_disconnect. get_config_ok is what esp_wifi_get_config returned.
on_wifi_disconnect(get_config_ok) ==
    /\ streak < MaxStreak
    /\ streak' = streak + 1
    /\ sta_connected' = FALSE
    /\ IF s_retry_count + 1 < MAX_RETRY_COUNT
       THEN /\ s_retry_count' = s_retry_count + 1
            /\ wifi_handler' = [event |-> "disconnect", backoff_ms |-> backoff_ms(s_retry_count + 1),
                                calls |-> <<"delay", "esp_wifi_set_ps", "esp_wifi_connect">>]
            /\ UNCHANGED sta_bssid_set
       ELSE /\ sta_bssid_set' = IF get_config_ok THEN FALSE ELSE sta_bssid_set
            /\ wifi_handler' = [event |-> "disconnect", backoff_ms |-> 500,
                                calls |-> <<"esp_wifi_stop", "delay", "esp_wifi_start",
                                            "esp_wifi_set_ps", "esp_wifi_connect">>]
            /\ s_retry_count' = 0
    /\ UNCHANGED <<now, gameVars, wsVars, espVars, bootVars, shotVars, codecVars, lockVars, sendVars, cbVars, bleVars, g_wifi_channel, g_httpd>>
    /\ sta_event' = "none"

\* A call counter that stops at MaxHttpCalls.
CountCall(n) == IF n < MaxHttpCalls THEN n + 1 ELSE n

\* httpd_register_uri_handler(server, uri): a URI already in the table is
\* refused with ESP_ERR_HTTPD_HANDLER_EXISTS and the table stays as it is.
httpd_register_uri_handler(h, u) ==
    [h EXCEPT !.uris = @ \cup {u}, !.reg_calls[u] = CountCall(@)]

\* wifi_start_http_server(false). httpd_ok is whether httpd_start found the
\* memory and sockets it needs; with a server already listening on port 80
\* it fails, and g_httpd keeps the handle of the running server.
wifi_start_http_server(h, httpd_ok) ==
    LET called == [h EXCEPT !.start_calls = CountCall(@)]
    IN  IF httpd_ok /\ ~h.running
        THEN httpd_register_uri_handler(
                 httpd_register_uri_handler([called EXCEPT !.running = TRUE, !.uris = {}], "/"),
                 "/clean")
        ELSE called

\* http_api_start(server): nothing for a null handle.
http_api_start(h) == IF ~h.running THEN h ELSE httpd_register_uri_handler(h, "/api")

\* ws_server_register(server): nothing for a null handle.
ws_server_register(h) == IF ~h.running THEN h ELSE httpd_register_uri_handler(h, "/ws")

\* on_got_ip. ap_info_ok is what esp_wifi_sta_get_ap_info returned, primary
\* the channel of the AP and httpd_ok whether httpd_start has its resources.
on_got_ip(ap_info_ok, primary, httpd_ok) ==
    /\ s_retry_count' = 0
    /\ streak' = 0
    /\ sta_connected' = TRUE
    /\ g_httpd' = ws_server_register(http_api_start(wifi_start_http_server(g_httpd, httpd_ok)))
    /\ g_wifi_channel' = IF ap_info_ok THEN primary ELSE g_wifi_channel
    /\ wifi_handler' = [event |-> "got_ip", backoff_ms |-> 0, calls |-> <<"esp_wifi_set_ps">>]
    /\ UNCHANGED <<now, gameVars, wsVars, espVars, bootVars, shotVars, codecVars, lockVars, sendVars, cbVars, eventVars, bleVars, sta_bssid_set>>

\* The Wi-Fi driver posts WIFI_EVENT_STA_DISCONNECTED to the default event
\* loop: the association was lost or a connect attempt failed.
StaDisconnected ==
    /\ sta_event = "none"
    /\ streak < MaxStreak
    /\ sta_event' = "disconnected"
    /\ UNCHANGED <<now, gameVars, wsVars, espVars, wifiVars, bootVars, shotVars, codecVars, lockVars,
                   sendVars, cbVars, bleVars>>

\* The event loop task takes the posted event and runs on_wifi_disconnect.
HandleDisconnect(get_config_ok) ==
    /\ sta_event = "disconnected"
    /\ on_wifi_disconnect(get_config_ok)

\* ------------------------------------------------------------ BLE target
\* The 16-bit messages the weapon notifies, and the lengths of a
\* notification: two bytes is a message.
BleMessages == {4660, 43981}
NotifyLengths == {1, 2}

\* gap_event_handler, BLE_GAP_EVENT_NOTIFY_RX on the message characteristic.
\* xQueueSend with no wait drops the message when the queue is full.
NotifyRx(m, len) ==
    /\ IF len = 2
       THEN /\ lastReceivedMessage' = m
            /\ hasNewMessage' = TRUE
            /\ message_queue' = IF Len(message_queue) < BLE_QUEUE_LENGTH
                                 THEN Append(message_queue, m) ELSE message_queue
            /\ read_since_rx' = FALSE
       ELSE UNCHANGED <<lastReceivedMessage, hasNewMessage, message_queue, read_since_rx>>
    /\ ble_call' = [fn |-> "notify_rx", ret |-> len = 2, message |-> m]
    /\ UNCHANGED <<now, gameVars, wsVars, espVars, wifiVars, bootVars, shotVars, codecVars, lockVars,
                   sendVars, cbVars, eventVars>>

\* BLETarget::hasMessage
hasMessage ==
    /\ ble_call' = [fn |-> "hasMessage", ret |-> (Len(message_queue) > 0) \/ hasNewMessage,
                    message |-> 0]
    /\ UNCHANGED <<message_queue, lastReceivedMessage, hasNewMessage, read_since_rx>>
    /\ UNCHANGED <<now, gameVars, wsVars, espVars, wifiVars, bootVars, shotVars, codecVars, lockVars,
                   sendVars, cbVars, eventVars>>

\* BLETarget::getMessage
getMessage ==
    /\ hasNewMessage' = FALSE
    /\ read_since_rx' = TRUE
    /\ ble_call' = [fn |-> "getMessage", ret |-> TRUE, message |-> lastReceivedMessage]
    /\ UNCHANGED <<message_queue, lastReceivedMessage>>
    /\ UNCHANGED <<now, gameVars, wsVars, espVars, wifiVars, bootVars, shotVars, codecVars, lockVars,
                   sendVars, cbVars, eventVars>>

\* BLETarget::fetchMessage(&message, 0)
fetchMessage ==
    /\ IF Len(message_queue) > 0
       THEN /\ lastReceivedMessage' = Head(message_queue)
            /\ message_queue' = Tail(message_queue)
            /\ hasNewMessage' = FALSE
            /\ ble_call' = [fn |-> "fetchMessage", ret |-> TRUE, message |-> Head(message_queue)]
       ELSE /\ ble_call' = [fn |-> "fetchMessage", ret |-> FALSE, message |-> 0]
            /\ UNCHANGED <<message_queue, lastReceivedMessage, hasNewMessage>>
    /\ UNCHANGED read_since_rx
    /\ UNCHANGED <<now, gameVars, wsVars, espVars, wifiVars, bootVars, shotVars, codecVars, lockVars,
                   sendVars, cbVars, eventVars>>

\* ------------------------------------------------- provisioning and boot
WIFI_MAX_SSID_LEN == 32
WIFI_MAX_PASS_LEN == 64

\* application/x-www-form-urlencoded text of a field value: a space is sent
\* as "+".
FormEncode(v) == [i \in 1..Len(v) |-> IF v[i] = " " THEN "+" ELSE v[i]]

\* The body a client posts for a form: key=value pairs joined by "&".
FormBody(f) ==
    <<"s", "s", "i", "d", "=">> \o FormEncode(f.ssid)
    \o (IF Has(f, "pass") THEN <<"&", "p", "a", "s", "s", "=">> \o FormEncode(f.pass) ELSE << >>)
    \o (IF Has(f, "name") THEN <<"&", "n", "a", "m", "e", "=">> \o FormEncode(f.name) ELSE << >>)
    \o (IF Has(f, "role") THEN <<"&", "r", "o", "l", "e", "=">> \o FormEncode(f.role) ELSE << >>)

\* strstr(buf, key): the index of the first occurrence of key, 0 for none.
strstr(buf, key) ==
    LET hits == {i \in 1..(Len(buf) - Len(key) + 1) : SubSeq(buf, i, i + Len(key) - 1) = key}
    IN  FirstSlot(hits)

\* config_post_handler, the extract lambda: the text after key up to the next
\* "&" or the end, cut to max - 1 characters; empty when the key is absent.
extract(buf, key, max) ==
    LET p == strstr(buf, key)
        start == p + Len(key)
        amps == {j \in start..Len(buf) : buf[j] = "&"}
        end == IF amps = {} THEN Len(buf) + 1 ELSE FirstSlot(amps)
        l == IF end - start >= max THEN max - 1 ELSE end - start
    IN  IF p = 0 THEN << >> ELSE SubSeq(buf, start, start + l - 1)

\* nvs_store_write_str
nvs_store_write_str(nvs, key, value) == (key :> value) @@ nvs

\* config_post_handler: POST /config with the body of form f.
config_post_handler(f) ==
    /\ ~restarting
    /\ LET body == FormBody(f)
           buf == SubSeq(body, 1, IF Len(body) > 255 THEN 255 ELSE Len(body))
           ssid == extract(buf, <<"s", "s", "i", "d", "=">>, WIFI_MAX_SSID_LEN)
           pass == extract(buf, <<"p", "a", "s", "s", "=">>, WIFI_MAX_PASS_LEN)
           name == extract(buf, <<"n", "a", "m", "e", "=">>, 32)
           role == extract(buf, <<"r", "o", "l", "e", "=">>, 12)
           n1 == nvs_store_write_str(nvs_wifi, "ssid", ssid)
           n2 == nvs_store_write_str(n1, "pass", pass)
           n3 == IF name # << >> THEN nvs_store_write_str(n2, "name", name) ELSE n2
           n4 == IF role # << >> THEN nvs_store_write_str(n3, "role", role) ELSE n3
       IN  IF g_wifi_boot_mode # "WIFI_BOOT_PROVISIONING"
           THEN /\ http_resp' = "400 Already provisioned"
                /\ UNCHANGED <<nvs_wifi, restarting>>
           ELSE IF ssid = << >>
           THEN /\ http_resp' = "400 Missing SSID"
                /\ UNCHANGED <<nvs_wifi, restarting>>
           ELSE /\ nvs_wifi' = n4
                /\ http_resp' = "200 Information stored"
                /\ restarting' = TRUE
    /\ UNCHANGED <<now, gameVars, wsVars, espVars, wifiVars, shotVars, codecVars, lockVars, sendVars, cbVars, eventVars, bleVars, g_wifi_boot_mode, boot_ids, ids_touched>>

\* wifi_manager_factory_reset: nvs_store_erase_namespace(NVS_NS_WIFI), then
\* esp_restart.
wifi_manager_factory_reset ==
    /\ nvs_wifi' = EmptyNvs
    /\ nvs_game' = nvs_game
    /\ restarting' = TRUE
    /\ ids_touched' = TRUE

\* clean_post_handler: POST /clean.
clean_post_handler ==
    /\ ~restarting
    /\ IF g_wifi_boot_mode # "WIFI_BOOT_STA"
       THEN /\ http_resp' = "400 Not in STA mode"
            /\ UNCHANGED <<nvs_wifi, nvs_game, restarting, ids_touched>>
       ELSE /\ wifi_manager_factory_reset
            /\ http_resp' = "none"
    /\ UNCHANGED <<now, s_config, s_game_cfg, s_state, last_req_id, outbox, pc, respawn_reports,
                   last_hit_fatal, wsVars, espVars, wifiVars, shotVars, codecVars, lockVars, sendVars, cbVars, eventVars, bleVars, g_wifi_boot_mode, boot_ids>>

\* wifi_evaluate_boot_mode: station mode when the wifi namespace holds a
\* non-empty ssid, provisioning otherwise.
wifi_evaluate_boot_mode(nvs) ==
    IF Has(nvs, "ssid") /\ nvs.ssid # << >> THEN "WIFI_BOOT_STA" ELSE "WIFI_BOOT_PROVISIONING"

\* game_state_generate_ids on the zeroed config: r is esp_random() & 0xFF.
game_state_generate_ids(dev, r) ==
    LET d == IF dev.device_id = 0 THEN r ELSE dev.device_id
    IN  [dev EXCEPT !.device_id = d, !.player_id = IF @ = 0 THEN d ELSE @]

\* game_state_load_ids: every key found in the "game" namespace replaces the
\* field in RAM.
game_state_load_ids(dev, nvs) ==
    [dev EXCEPT
        !.device_id = IF Has(nvs, "device_id_u8") THEN nvs.device_id_u8 ELSE @,
        !.player_id = IF Has(nvs, "player_id_u8") THEN nvs.player_id_u8 ELSE @,
        !.team_id = IF Has(nvs, "team_id_u8") THEN nvs.team_id_u8 ELSE @,
        !.color_rgb = IF Has(nvs, "color_u32") THEN nvs.color_u32 ELSE @,
        !.device_name = IF Has(nvs, "device_name") THEN nvs.device_name ELSE @]

\* game_state_init(role), the device config it leaves.
game_state_init(role, nvs, r) ==
    game_state_load_ids(
        game_state_generate_ids(
            [device_id |-> 0, player_id |-> 0, team_id |-> 0, color_rgb |-> 0,
             device_name |-> "", role |-> role], r), nvs)

\* A boot, after esp_restart or a power cycle:
\* init_reset_button_and_check_factory_reset, which restarts again when the
\* button is held; then wifi_manager_init and game_state_init. RAM starts
\* from its initial values.
Boot(button_held, r) ==
    /\ http_resp' = "none"
    /\ IF button_held
       THEN /\ wifi_manager_factory_reset
            /\ UNCHANGED <<s_config, s_game_cfg, s_state, g_wifi_boot_mode, boot_ids, wifiVars, lockVars, sendVars, cbVars, eventVars, bleVars>>
       ELSE /\ restarting' = FALSE
            /\ g_wifi_boot_mode' = wifi_evaluate_boot_mode(nvs_wifi)
            /\ s_retry_count' = 0
            /\ sta_bssid_set' = FALSE
            /\ sta_connected' = FALSE
            /\ streak' = 0
            /\ wifi_handler' = [event |-> "none", backoff_ms |-> 0, calls |-> << >>]
            /\ g_wifi_channel' = 1
            /\ g_httpd' = NoServer
            /\ s_config' = game_state_init(s_config.role, nvs_game, r)
            /\ s_game_cfg' = game_state_load_default_game_config
            /\ s_state' = game_state_reset_runtime(ZeroState, game_state_load_default_game_config)
            /\ boot_ids' = <<s_config'.device_id, s_config'.player_id>>
            /\ ids_touched' = FALSE
            /\ UNCHANGED <<nvs_wifi, nvs_game>>
    /\ last_req_id' = << >>
    /\ outbox' = << >>
    /\ pc' = [p \in Pollers |-> "idle"]
    /\ respawn_reports' = 0
    /\ last_hit_fatal' = FALSE
    /\ UNCHANGED <<now, wsVars, espVars, shotVars, codecVars, lockVars, sendVars, cbVars, eventVars, bleVars>>

\* A config_update frame that changes identity fields, on a running device.
IdentityUpdate(fd, m) ==
    /\ ~restarting
    /\ process_message(fd, m)
    /\ ids_touched' = TRUE
    /\ UNCHANGED <<now, pc, respawn_reports, last_hit_fatal, wsVars, espVars, wifiVars, shotVars, codecVars, lockVars, sendVars, cbVars, eventVars, bleVars,
                   nvs_wifi, g_wifi_boot_mode, restarting, http_resp, boot_ids>>

\* A caller hands a GameConfig to game_state_apply_game_config.
ApplyGameConfig(cfg) ==
    /\ s_game_cfg' = game_state_apply_game_config(cfg)
    /\ UNCHANGED <<now, s_config, s_state, nvs_game, last_req_id, outbox, pc, respawn_reports,
                   last_hit_fatal, wsVars, espVars, sysVars>>

\* -------------------------------------------------- WS server callbacks
\* add_client of the optimized server: the table is updated under the mutex,
\* release_mutex(), then on_connect(fd, true).
CbAddClient(fd) ==
    /\ task["httpd"].pc = "idle"
    /\ s_clients' = add_client(s_clients, fd, TRUE, now)
    /\ IF add_client_notifies(s_clients, fd)
       THEN /\ cb_state' = [cb_state EXCEPT ![fd] = TRUE]
            /\ cb_call' = [fn |-> "on_connect", fd |-> fd, locked |-> FALSE]
            /\ task' = [task EXCEPT !["httpd"].pc = "callback"]
       ELSE UNCHANGED <<cb_state, cb_call, task>>
    /\ UNCHANGED <<now, gameVars, espVars, wifiVars, bootVars, shotVars, codecVars, lockVars, sendVars, eventVars, bleVars,
                   rehandshake, hs, last_send, bc, last_frame, s_ws_mutex>>

\* remove_client: the row is cleared under the mutex, release_mutex(), then
\* on_connect(fd, false).
CbRemoveClient(fd) ==
    /\ task["httpd"].pc = "idle"
    /\ s_clients' = remove_client(s_clients, fd)
    /\ IF remove_client_notifies(s_clients, fd)
       THEN /\ cb_state' = [cb_state EXCEPT ![fd] = FALSE]
            /\ cb_call' = [fn |-> "on_connect", fd |-> fd, locked |-> FALSE]
            /\ task' = [task EXCEPT !["httpd"].pc = "callback"]
       ELSE UNCHANGED <<cb_state, cb_call, task>>
    /\ UNCHANGED <<now, gameVars, espVars, wifiVars, bootVars, shotVars, codecVars, lockVars, sendVars, eventVars, bleVars,
                   rehandshake, hs, last_send, bc, last_frame, s_ws_mutex>>

\* ws_handler, data frame: update_client_activity (mutex taken and released),
\* then on_message.
CbOnMessage(fd) ==
    /\ task["httpd"].pc = "idle"
    /\ s_clients' = update_client_activity(s_clients, fd, now)
    /\ cb_call' = [fn |-> "on_message", fd |-> fd, locked |-> FALSE]
    /\ task' = [task EXCEPT !["httpd"].pc = "callback"]
    /\ UNCHANGED <<now, gameVars, espVars, wifiVars, bootVars, shotVars, codecVars, lockVars, sendVars, eventVars, bleVars,
                   rehandshake, hs, last_send, bc, last_frame, cb_state, s_ws_mutex>>

\* add_client of the server without the stale-row removal: xSemaphoreTake,
\* the row is written, on_connect(fd, true), and only then xSemaphoreGive.
CbAddClientHoldingMutex(fd) ==
    /\ task["httpd"].pc = "idle"
    /\ find_client_by_fd(s_clients, fd) = 0
    /\ s_clients' = add_client_keeping_old_row(s_clients, fd, FALSE, 0)
    /\ IF find_client_slot(s_clients) # 0
       THEN /\ s_ws_mutex' = "httpd"
            /\ cb_state' = [cb_state EXCEPT ![fd] = TRUE]
            /\ cb_call' = [fn |-> "on_connect", fd |-> fd, locked |-> TRUE]
            /\ task' = [task EXCEPT !["httpd"].pc = "callback"]
       ELSE UNCHANGED <<s_ws_mutex, cb_state, cb_call, task>>
    /\ UNCHANGED <<now, gameVars, espVars, wifiVars, bootVars, shotVars, codecVars, lockVars, sendVars, eventVars, bleVars,
                   rehandshake, hs, last_send, bc, last_frame>>

\* The application's callback calls ws_server_client_count, which takes the
\* client-table mutex with portMAX_DELAY: a task that already holds the
\* non-recursive mutex blocks for good.
CallbackClientCount ==
    /\ task["httpd"].pc = "callback"
    /\ task' = [task EXCEPT !["httpd"].pc = IF s_ws_mutex = "httpd" THEN "blocked" ELSE "counted"]
    /\ UNCHANGED <<now, gameVars, espVars, wifiVars, bootVars, shotVars, codecVars, lockVars, sendVars,
                   rehandshake, hs, last_send, bc, last_frame, s_clients, cb_state, cbVars, eventVars, bleVars>>

\* The callback returns; a mutex held across it is given back.
CallbackReturn ==
    /\ task["httpd"].pc \in {"callback", "counted"}
    /\ s_ws_mutex' = "free"
    /\ task' = [task EXCEPT !["httpd"].pc = "idle"]
    /\ UNCHANGED <<now, gameVars, espVars, wifiVars, bootVars, shotVars, codecVars, lockVars, sendVars, eventVars, bleVars,
                   rehandshake, hs, last_send, bc, last_frame, s_clients, cb_state, cb_call>>

\* ------------------------------------------------------- espnow_comm_send
\* espnow_comm_send up to xSemaphoreTake: without a mutex it returns false.
SendCall(t) ==
    /\ send_task[t].pc = "idle"
    /\ send_task' = [send_task EXCEPT ![t] =
                       IF s_send_mutex
                       THEN [pc |-> "take", waited_ms |-> 0, ret |-> "none", transmitted |-> FALSE]
                       ELSE [IdleSender EXCEPT !.ret = "false"]]
    /\ UNCHANGED <<now, gameVars, wsVars, espVars, wifiVars, bootVars, shotVars, codecVars, lockVars, cbVars, eventVars, bleVars,
                   send_owner>>

\* xSemaphoreTake that succeeds whoever holds the mutex
SendTakeAnyway(t) ==
    /\ send_task[t].pc = "take"
    /\ send_owner' = t
    /\ send_task' = [send_task EXCEPT ![t].pc = "esp_now_send"]
    /\ UNCHANGED <<now, gameVars, wsVars, espVars, wifiVars, bootVars, shotVars, codecVars, lockVars, cbVars, eventVars, bleVars>>

\* xSemaphoreTake returns pdTRUE: the mutex was or became free within the
\* budget; esp_now_send is entered.
SendTake(t) ==
    /\ send_task[t].pc = "take"
    /\ send_owner = "free"
    /\ send_owner' = t
    /\ send_task' = [send_task EXCEPT ![t].pc = "esp_now_send"]
    /\ UNCHANGED <<now, gameVars, wsVars, espVars, wifiVars, bootVars, shotVars, codecVars, lockVars, cbVars, eventVars, bleVars>>

\* The task blocks in xSemaphoreTake while another holds the mutex.
SendWait(t, d) ==
    /\ send_task[t].pc = "take"
    /\ send_owner # "free"
    /\ send_task[t].waited_ms < SEND_MUTEX_WAIT_MS
    /\ send_task' = [send_task EXCEPT ![t].waited_ms =
                       IF @ + d > SEND_MUTEX_WAIT_MS THEN SEND_MUTEX_WAIT_MS ELSE @ + d]
    /\ UNCHANGED <<now, gameVars, wsVars, espVars, wifiVars, bootVars, shotVars, codecVars, lockVars, cbVars, eventVars, bleVars,
                   send_owner>>

\* xSemaphoreTake returns pdFALSE after pdMS_TO_TICKS(50): ok stays false.
SendTimeout(t) ==
    /\ send_task[t].pc = "take"
    /\ send_owner # "free"
    /\ send_task[t].waited_ms >= SEND_MUTEX_WAIT_MS
    /\ send_task' = [send_task EXCEPT ![t].pc = "idle", ![t].ret = "false"]
    /\ UNCHANGED <<now, gameVars, wsVars, espVars, wifiVars, bootVars, shotVars, codecVars, lockVars, cbVars, eventVars, bleVars,
                   send_owner>>

\* esp_now_send returns err, xSemaphoreGive, return ok.
SendReturn(t, err_ok) ==
    /\ send_task[t].pc = "esp_now_send"
    /\ send_owner' = "free"
    /\ send_task' = [send_task EXCEPT ![t].pc = "idle", ![t].transmitted = TRUE,
                                      ![t].ret = IF err_ok THEN "true" ELSE "false"]
    /\ UNCHANGED <<now, gameVars, wsVars, espVars, wifiVars, bootVars, shotVars, codecVars, lockVars, cbVars, eventVars, bleVars>>

\* The device has been up for almost 2^32 ms with no respawn pending:
\* esp_timer_get_time() / 1000 cast to uint32_t is UptimeBeforeWrap short of
\* wrapping.
LongUptime ==
    /\ now = 0
    /\ ~s_state.respawning
    /\ now' = U32Sub(0, UptimeBeforeWrap)
    /\ UNCHANGED <<s_config, s_game_cfg, s_state, nvs_game, last_req_id, outbox, pc, respawn_reports,
                   last_hit_fatal, wsVars, espVars, sysVars>>

\* ------------------------------------------------------ game-state mutex
\* game_state_record_death: LOCK, the writes, UNLOCK.
HitLocked ==
    /\ s_mutex = "free"
    /\ Hit

\* game_state_check_respawn after a true test: LOCK().
RespawnLock(p) ==
    /\ pc[p] = "commit"
    /\ s_mutex = "free"
    /\ s_mutex' = p
    /\ pc' = [pc EXCEPT ![p] = "locked"]
    /\ UNCHANGED <<now, s_config, s_game_cfg, s_state, nvs_game, last_req_id, outbox, respawn_reports,
                   last_hit_fatal, wsVars, espVars, wifiVars, bootVars, shotVars, codecVars, sendVars, cbVars, eventVars, bleVars,
                   cfg_pc, last_writer>>

\* game_state_check_respawn: the two writes between LOCK and UNLOCK.
RespawnWrite(p) ==
    /\ pc[p] = "locked"
    /\ s_state' = game_state_check_respawn_commit(s_state, s_game_cfg)
    /\ last_writer' = [task |-> p, held |-> s_mutex = p]
    /\ pc' = [pc EXCEPT ![p] = "unlock"]
    /\ UNCHANGED <<now, s_config, s_game_cfg, nvs_game, last_req_id, outbox, respawn_reports,
                   last_hit_fatal, wsVars, espVars, wifiVars, bootVars, shotVars, codecVars, sendVars, cbVars, eventVars, bleVars,
                   s_mutex, cfg_pc>>

\* game_state_check_respawn: UNLOCK(), return true.
RespawnUnlock(p) ==
    /\ pc[p] = "unlock"
    /\ s_mutex' = "free"
    /\ respawn_reports' = respawn_reports + 1
    /\ pc' = [pc EXCEPT ![p] = "idle"]
    /\ UNCHANGED <<now, s_config, s_game_cfg, s_state, nvs_game, last_req_id, outbox,
                   last_hit_fatal, wsVars, espVars, wifiVars, bootVars, shotVars, codecVars, sendVars, cbVars, eventVars, bleVars,
                   cfg_pc, last_writer>>

\* handle_config_update in the httpd task, up to game_state_save_ids: the
\* fields are written through game_state_get_config_mut and
\* game_state_get_game_config_mut; no LOCK is taken.
ConfigWriteFields(m) ==
    /\ cfg_pc = "idle"
    /\ ~IsTrue(m, "reset_to_defaults")
    /\ s_config' = ConfigUpdateIdentity(s_config, m)
    /\ s_game_cfg' = ConfigUpdateRules(s_game_cfg, m)
    /\ last_writer' = [task |-> "httpd", held |-> s_mutex = "httpd"]
    /\ cfg_pc' = "save"
    /\ UNCHANGED <<now, s_state, nvs_game, last_req_id, outbox, pc, respawn_reports,
                   last_hit_fatal, wsVars, espVars, wifiVars, bootVars, shotVars, codecVars, sendVars, cbVars, eventVars, bleVars, s_mutex>>

\* handle_config_update, the rest: game_state_save_ids (LOCK, nvs writes,
\* UNLOCK) and ws_server_broadcast_game_state.
ConfigSaveIds ==
    /\ cfg_pc = "save"
    /\ s_mutex = "free"
    /\ nvs_game' = game_state_save_ids(s_config, nvs_game)
    /\ outbox' = <<StatusBroadcast>>
    /\ cfg_pc' = "idle"
    /\ UNCHANGED <<now, s_config, s_game_cfg, s_state, last_req_id, pc, respawn_reports,
                   last_hit_fatal, wsVars, espVars, wifiVars, bootVars, shotVars, codecVars, sendVars, cbVars, eventVars, bleVars,
                   s_mutex, last_writer>>

\* ------------------------------------------------------------ shot events
\* ws_client_send_shot_fired that sends the frame before it counts the shot
ws_client_send_shot_fired_late(sent) ==
    /\ s_state.shots_fired < MaxClientShots
    /\ s_state' = game_state_record_shot(s_state)
    /\ shot_frame' = IF sent THEN [via |-> "ws_client", n |-> s_state.shots_fired, fresh |-> TRUE]
                     ELSE shot_frame
    /\ UNCHANGED <<now, s_config, s_game_cfg, nvs_game, last_req_id, outbox, pc, respawn_reports,
                   last_hit_fatal, wsVars, espVars, wifiVars, bootVars, codecVars, lockVars, sendVars, cbVars, eventVars, bleVars, status_frame>>

\* ws_client_send_shot_fired: game_state_record_shot, then
\* game_state_create_shot_fired_json and ws_client_send; sent is whether the
\* client was connected and the transport took the frame.
ws_client_send_shot_fired(sent) ==
    /\ s_state.shots_fired < MaxClientShots
    /\ s_state' = game_state_record_shot(s_state)
    /\ shot_frame' = IF sent THEN [via |-> "ws_client", n |-> s_state'.shots_fired, fresh |-> TRUE]
                     ELSE shot_frame
    /\ UNCHANGED <<now, s_config, s_game_cfg, nvs_game, last_req_id, outbox, pc, respawn_reports,
                   last_hit_fatal, wsVars, espVars, wifiVars, bootVars, codecVars, lockVars, sendVars, cbVars, eventVars, bleVars, status_frame>>

\* The trigger handler of the device counts a shot: game_state_record_shot.
RecordShot ==
    /\ s_state.shots_fired < MaxShots
    /\ s_state' = game_state_record_shot(s_state)
    /\ UNCHANGED <<now, s_config, s_game_cfg, nvs_game, last_req_id, outbox, pc, respawn_reports,
                   last_hit_fatal, wsVars, espVars, sysVars>>

\* ws_server_broadcast_shot: the frame carries seq_id = st->shots_fired.
ws_server_broadcast_shot ==
    /\ shot_frame' = [via |-> "ws_server", n |-> s_state.shots_fired, fresh |-> TRUE]
    /\ UNCHANGED <<now, gameVars, wsVars, espVars, wifiVars, bootVars, codecVars, lockVars, sendVars, cbVars, eventVars, bleVars, status_frame>>

\* game_state_to_json / ws_server_send_status: a status is built from the
\* live statistics.
BuildStatus ==
    /\ status_frame' = [built |-> TRUE, shots |-> s_state.shots_fired]
    /\ UNCHANGED <<now, gameVars, wsVars, espVars, wifiVars, bootVars, codecVars, lockVars, sendVars, cbVars, eventVars, bleVars, shot_frame>>

\* A game_command frame with CMD_RESET: game_state_reset_stats.
ResetCommand(fd) ==
    /\ process_message(fd, [op |-> OP_GAME_COMMAND, command |-> CMD_RESET])
    /\ shot_frame' = [shot_frame EXCEPT !.fresh = FALSE]
    /\ UNCHANGED <<now, pc, respawn_reports, last_hit_fatal, wsVars, espVars, wifiVars, bootVars, codecVars, lockVars, sendVars, cbVars, eventVars, bleVars,
                   status_frame>>

\* ------------------------------------------------------------ laser codec

\* The ^ of C on non-negative operands.
RECURSIVE BitXor(_, _)
BitXor(a, b) ==
    IF a = 0 THEN b
    ELSE IF b = 0 THEN a
    ELSE ((a + b) % 2) + 2 * BitXor(a \div 2, b \div 2)

\* calculateHash4bit without the constant
calculateHash4bit_plain(data) ==
    LET d == data % 4096
        nibble0 == d % 16
        nibble1 == (d \div 16) % 16
        nibble2 == (d \div 256) % 16
    IN  BitXor(BitXor(nibble0, nibble1), nibble2) % 16

\* calculateHash4bit: + binds tighter than ^, so the constant is 0x09 + 1.
calculateHash4bit(data) ==
    LET d == data % 4096
        nibble0 == d % 16
        nibble1 == (d \div 16) % 16
        nibble2 == (d \div 256) % 16
    IN  BitXor(BitXor(BitXor(nibble0, nibble1), nibble2), 9 + 1) % 16

\* validateMessage16bit of the 12+4 header
validateMessage16bit_12_4(msg) ==
    LET data == (msg \div 16) % 4096
        receivedHash == msg % 16
        expectedHash == calculateHash4bit(data)
    IN  [ok |-> receivedHash = expectedHash, data |-> data]

\* createMessage16bit of the 12+4 header with the data in the high byte
createMessage16bit_12_4_high(data0) ==
    LET data == data0 % 4096
        hash == calculateHash4bit(data)
    IN  U16(BitXor(data * 256, hash % 16))

\* createMessage16bit of the 12+4 header; data << 4 and the hash share no
\* bit, so | is ^.
createMessage16bit_12_4(data0) ==
    LET data == data0 % 4096
        hash == calculateHash4bit(data)
    IN  U16(BitXor(data * 16, hash % 16))

MESSAGE_HASH_BITS == 8

\* calculateHash8bit
calculateHash8bit(data) ==
    (BitXor(data % 256, HASH_XOR_SEED) + HASH_OFFSET) % 256

\* validateMessage16bit of the 8+8 header
validateMessage16bit_8_8(msg) ==
    LET data == (msg \div (2 ^ MESSAGE_HASH_BITS)) % 256
        receivedHash == msg % 256
        expectedHash == calculateHash8bit(data)
    IN  [ok |-> receivedHash = expectedHash, data |-> data]

\* createMessage16bit of the 8+8 header
createMessage16bit_8_8(data0) ==
    LET data == data0 % 256
        hash == calculateHash8bit(data)
    IN  U16(BitXor(data * (2 ^ MESSAGE_HASH_BITS), hash % 256))

createMessage16bit(c, data) ==
    IF c = "8+8" THEN createMessage16bit_8_8(data) ELSE createMessage16bit_12_4(data)

validateMessage16bit(c, msg) ==
    IF c = "8+8" THEN validateMessage16bit_8_8(msg) ELSE validateMessage16bit_12_4(msg)

\* The sender encodes a data value and the word goes on the idle line.
Encode(c, d) ==
    /\ InitLine
    /\ encoded' = [codec |-> c, data |-> d]
    /\ message' = createMessage16bit(c, d)
    /\ decoded' = NoWord
    /\ UNCHANGED <<now, gameVars, wsVars, espVars, wifiVars, bootVars, shotVars, lockVars, sendVars, cbVars, eventVars, bleVars,
                   HASH_XOR_SEED, HASH_OFFSET>>

\* The photodiode delivers a word nobody encoded.
LineWord(w) ==
    /\ InitLine
    /\ encoded' = NoWord
    /\ message' = w
    /\ decoded' = NoWord
    /\ UNCHANGED <<now, gameVars, wsVars, espVars, wifiVars, bootVars, shotVars, lockVars, sendVars, cbVars, eventVars, bleVars,
                   HASH_XOR_SEED, HASH_OFFSET>>

\* The receiver validates the word on the line; outData is written only
\* when the word is accepted.
Decode(c) ==
    /\ IF encoded = NoWord THEN TRUE ELSE encoded.codec = c
    /\ LET r == validateMessage16bit(c, message)
       IN  decoded' = [codec |-> c, ok |-> r.ok, data |-> IF r.ok THEN r.data ELSE 0]
    /\ UNCHANGED <<now, gameVars, wsVars, espVars, wifiVars, bootVars, shotVars, lockVars, sendVars, cbVars, eventVars, bleVars,
                   HASH_XOR_SEED, HASH_OFFSET, encoded, message>>

\* The word has been consumed and the line is idle again.
LineIdle ==
    /\ decoded # NoWord
    /\ encoded' = NoWord
    /\ message' = 0
    /\ decoded' = NoWord
    /\ UNCHANGED <<now, gameVars, wsVars, espVars, wifiVars, bootVars, shotVars, lockVars, sendVars, cbVars, eventVars, bleVars,
                   HASH_XOR_SEED, HASH_OFFSET>>

\* ----------------------------------------------------------- specifications
\* The engine under hits, the clock, respawn polling and game commands.
Next ==
    \/ \E fd \in Fds, m \in EngineFrames : WsDataFrame(fd, m)
    \/ Hit
    \/ Tick
    \/ \E p \in Pollers : CheckRespawnTest(p)
    \/ \E p \in Pollers : CheckRespawnCommit(p)

Spec == Init /\ [][Next]_vars

\* A hit where the rules are being reconfigured.
ConfigHit == s_state.deaths < MaxConfigDeaths /\ Hit

\* The engine under config updates, game commands, hits and statistics events.
NextConfig ==
    \/ \E fd \in Fds, m \in ConfigFrames : WsDataFrame(fd, m)
    \/ ConfigHit
    \/ Shot
    \/ HitConfirmed
    \/ HitInvalid
    \/ \E c \in BOOLEAN : SetConnected(c)

SpecConfig == Init /\ [][NextConfig]_vars

\* The admin dispatcher under every kind of inbound frame.
NextProtocol ==
    \E fd \in Fds, m \in ProtocolFrames : WsDataFrame(fd, m)

SpecProtocol == Init /\ [][NextProtocol]_vars

\* The optimized WS client table under handshakes, frames, sends, stale sweeps
\* and the clock.
NextWs ==
    \/ \E fd \in WsFds : WsHandshake(fd)
    \/ WsHandshakeAdd
    \/ WsSweepStart
    \/ \E t \in WsTasks : WsSweepRemove(t)
    \/ WsSweepReturn
    \/ \E fd \in WsFds : WsRecvData(fd)
    \/ \E fd \in WsFds, ok \in BOOLEAN : WsSend(fd, ok)
    \/ WsTick

SpecWs == Init /\ [][NextWs]_vars

\* A handshake of the crowd: a new connection, from the lowest handle that has
\* no row.
CrowdHandshake(fd) ==
    /\ find_client_by_fd(s_clients, fd) = 0
    /\ \A g \in 1..(fd - 1) : find_client_by_fd(s_clients, g) # 0
    /\ WsHandshake(fd)

\* The clock where the crowd connects.
CrowdTick == now < MaxCrowdTicks * (WS_CLIENT_TIMEOUT_MS \div 2 + 1) /\ WsTick

\* The optimized WS client table under the handshakes of a crowd that outnumbers
\* its slots, and the clock.
NextWsFull ==
    \/ \E fd \in FullFds : CrowdHandshake(fd)
    \/ WsSweepRemove("httpd")
    \/ WsHandshakeAdd
    \/ CrowdTick

SpecWsFull == Init /\ [][NextWsFull]_vars

\* The optimized WS client table under the requests the httpd task serves one
\* at a time, and the clock; no other task enters the server.
NextWsHttpd ==
    \/ \E fd \in WsFds : WsHandshake(fd)
    \/ WsSweepRemove("httpd")
    \/ WsHandshakeAdd
    \/ \E fd \in WsFds : WsRecvData(fd)
    \/ WsTick

SpecWsHttpd == Init /\ [][NextWsHttpd]_vars

\* The optimized WS client table under broadcasts, with clients connecting
\* and stale rows being swept while a broadcast is under way.
NextWsBroadcast ==
    \/ \E fd \in WsFds : WsHandshake(fd)
    \/ WsSweepRemove("httpd")
    \/ WsHandshakeAdd
    \/ BcSnapshot
    \/ \E ok \in BOOLEAN : BcSend(ok)
    \/ BcReturn
    \/ WsTick

SpecWsBroadcast == Init /\ [][NextWsBroadcast]_vars

\* The /ws endpoint of the optimized server with control frames arriving: the
\* HTTP server task alone, which serves handshakes, data frames and the
\* control frames of its sessions.
NextWsControl ==
    \/ \E fd \in WsFds : WsHandshake(fd)
    \/ WsSweepRemove("httpd")
    \/ WsHandshakeAdd
    \/ \E fd \in WsFds : WsRecvData(fd)
    \/ \E fd \in WsFds : WsRecvPong(fd)
    \/ \E fd \in WsFds : WsRecvClose(fd)
    \/ WsTick

SpecWsControl == Init /\ [][NextWsControl]_vars

\* A datagram arrives while fewer than MaxQueued envelopes wait.
PeerDatagram(mac, seq, valid) ==
    /\ arrived < MaxDatagrams
    /\ Len(s_rx_queue.items) < MaxQueued
    /\ recv_cb(mac, seq, valid)

\* The ESP-NOW bus under its whole API and peer datagrams.
NextEspnow ==
    \/ \E config \in EspnowConfigs, init_ok \in BOOLEAN, chan_ok \in BOOLEAN :
          EspnowInit(config, init_ok, chan_ok)
    \/ \E mac \in Macs, ok \in BOOLEAN : EspnowAddPeer(mac, ok)
    \/ EspnowClearPeers
    \/ \E mac \in Macs, seq \in Seqs, valid \in BOOLEAN : PeerDatagram(mac, seq, valid)
    \/ espnow_comm_receive

SpecEspnow == Init /\ [][NextEspnow]_vars

\* One peer floods the bus: its datagrams carry the sequences 1, 2, 3, ...
FloodDatagram ==
    /\ arrived < MaxFlood
    /\ recv_cb("aa", arrived + 1, TRUE)

\* The ESP-NOW bus, initialised once, under a flood and a slow reader.
NextEspnowFlood ==
    \/ ~s_initialised /\ EspnowInit(NoConfig, TRUE, TRUE)
    \/ FloodDatagram
    \/ espnow_comm_receive

SpecEspnowFlood == Init /\ [][NextEspnowFlood]_vars

\* The station supervisor: the event loop task runs one handler at a time.
NextWifi ==
    \/ \E get_config_ok \in BOOLEAN : on_wifi_disconnect(get_config_ok)
    \/ \E ap_info_ok \in BOOLEAN, primary \in ApChannels, httpd_ok \in BOOLEAN :
          on_got_ip(ap_info_ok, primary, httpd_ok)

SpecWifi == Init /\ [][NextWifi]_vars

\* The device across boots: provisioning, factory reset, identity updates.
NextBoot ==
    \/ \E f \in ProvisioningForms : config_post_handler(f)
    \/ clean_post_handler
    \/ \E button_held \in BOOLEAN, r \in BootRands : Boot(button_held, r)
    \/ \E fd \in Fds, m \in WithOp(OP_CONFIG_UPDATE, IdentityPayloads) : IdentityUpdate(fd, m)

SpecBoot == Init /\ [][NextBoot]_vars

\* Shots counted by the trigger handler and announced by the WS server.
NextShotSeq ==
    \/ RecordShot
    \/ ws_server_broadcast_shot

SpecShotSeq == Init /\ [][NextShotSeq]_vars

\* Shots announced by the WS client and by the WS server, statuses and
\* statistics resets.
NextShots ==
    \/ \E sent \in BOOLEAN : ws_client_send_shot_fired(sent)
    \/ ws_server_broadcast_shot
    \/ BuildStatus
    \/ \E fd \in Fds : ResetCommand(fd)

SpecShots == Init /\ [][NextShots]_vars

\* The laser codec of both headers, for every build of the hash constants.
NextHash ==
    \/ \E c \in Codecs : \E d \in DataValues(c) : Encode(c, d)
    \/ \E w \in LineWords : LineWord(w)
    \/ \E c \in Codecs : Decode(c)
    \/ LineIdle

SpecHash == InitHash /\ [][NextHash]_vars

\* game_state_apply_game_config on every input.
NextApply ==
    \E cfg \in GameConfigInputs : ApplyGameConfig(cfg)

SpecApply == Init /\ [][NextApply]_vars

\* The station supervisor next to the WebSocket client's connection events.
NextNet ==
    \/ NextWifi
    \/ \E c \in BOOLEAN : SetConnected(c)

SpecNet == Init /\ [][NextNet]_vars

\* The game task's respawn poll next to config updates of the httpd task,
\* with the game-state mutex.
NextLock ==
    \/ ConfigHit /\ HitLocked
    \/ Tick
    \/ \E p \in Pollers : CheckRespawnTest(p)
    \/ \E p \in Pollers : RespawnLock(p)
    \/ \E p \in Pollers : RespawnWrite(p)
    \/ \E p \in Pollers : RespawnUnlock(p)
    \/ \E m \in ConfigPayloads : ConfigWriteFields(m)
    \/ ConfigSaveIds

SpecLock == Init /\ [][NextLock]_vars

\* Tasks sending peer datagrams through espnow_comm_send.
NextSend ==
    \/ \E config \in EspnowConfigs, init_ok, chan_ok \in BOOLEAN : EspnowInit(config, init_ok, chan_ok)
    \/ \E t \in Senders : SendCall(t)
    \/ \E t \in Senders : SendTake(t)
    \/ \E t \in Senders, d \in WaitSlices : SendWait(t, d)
    \/ \E t \in Senders : SendTimeout(t)
    \/ \E t \in Senders, err_ok \in BOOLEAN : SendReturn(t, err_ok)

SpecSend == Init /\ [][NextSend]_vars

\* The respawn poll on a device whose millisecond clock is about to wrap.
NextWrap ==
    \/ LongUptime
    \/ ConfigHit /\ Hit
    \/ Tick
    \/ \E p \in Pollers : CheckRespawnTest(p)
    \/ \E p \in Pollers : CheckRespawnCommit(p)

SpecWrap == Init /\ [][NextWrap]_vars

\* The callbacks of the WS servers and what the application does in them.
NextWsCallback ==
    \/ \E fd \in WsFds : CbAddClient(fd)
    \/ \E fd \in WsFds : CbRemoveClient(fd)
    \/ \E fd \in WsFds : CbOnMessage(fd)
    \/ \E fd \in WsFds : CbAddClientHoldingMutex(fd)
    \/ CallbackClientCount
    \/ CallbackReturn

SpecWsCallback == Init /\ [][NextWsCallback]_vars

\* ------------------------------------------------------------------ claims
IsAckFor(f, id) == f.op = OP_ACK /\ Has(f, "reply_to") /\ f.reply_to = id
IsAck(f) == f.op = OP_ACK

\* C1: a command frame that carries a req_id produces exactly one ack (op 20)
\* whose reply_to is that req_id; a frame without req_id produces no ack.
C1_AckPerReqId ==
    IF last_req_id # << >>
    THEN Cardinality({i \in DOMAIN outbox : IsAckFor(outbox[i], last_req_id[1])}) = 1
    ELSE \A i \in DOMAIN outbox : ~IsAck(outbox[i])

\* C1: a frame with a req_id has been handled and has answered it with a status.
C1_Witness == last_req_id = <<"r1">> /\ outbox = <<[op |-> OP_STATUS, to |-> 1]>>

\* C2: the stored rules always satisfy the clamp table.
C2_ClampTable ==
    /\ 1 <= s_game_cfg.max_hearts /\ s_game_cfg.max_hearts <= 99
    /\ ~U32Lt(30000, s_game_cfg.respawn_cooldown_ms)
    /\ s_game_cfg.reload_time_ms <= 30000
    /\ 50 <= s_game_cfg.shot_rate_limit_ms /\ s_game_cfg.shot_rate_limit_ms <= 2000
    /\ s_game_cfg.time_limit_s <= 7200

ConfigUpdateStep == \E fd \in Fds, m \in WithOp(OP_CONFIG_UPDATE, ConfigPayloads) : WsDataFrame(fd, m)

\* C3: a config_update that lowers max_hearts below the current hearts leaves the
\* hearts equal to the new max_hearts; one that raises max_hearts leaves them unchanged.
C3_LowerClampsRaiseKeeps ==
    [][ConfigUpdateStep =>
        /\ (s_game_cfg'.max_hearts < s_game_cfg.max_hearts
              /\ s_game_cfg'.max_hearts < s_state.hearts_remaining)
            => s_state'.hearts_remaining = s_game_cfg'.max_hearts
        /\ s_game_cfg'.max_hearts > s_game_cfg.max_hearts
            => s_state'.hearts_remaining = s_state.hearts_remaining]_vars

\* C4: under hits, respawn expiries and resets, 0 <= hearts_remaining <= max_hearts.
C4_HeartsWithinMax ==
    0 <= s_state.hearts_remaining /\ s_state.hearts_remaining <= s_game_cfg.max_hearts

\* C4: more hits than hearts have been delivered without a reset, so a hit has
\* arrived at zero hearts.
C4_Witness ==
    s_state.hearts_remaining = 0 /\ s_state.deaths > s_game_cfg.max_hearts

\* C5: respawning implies hearts_remaining = 0 and now < respawn_end_time_ms.
C5_RespawningImpliesDead ==
    s_state.respawning =>
        s_state.hearts_remaining = 0 /\ U32Lt(now, s_state.respawn_end_time_ms)

\* C6: for a hit that brought the hearts to 0, game_state_check_respawn reports
\* the respawn completion at most once, whichever tasks poll it, and the report
\* leaves respawning false and the hearts equal to max_hearts.
C6_OneRespawnReport ==
    last_hit_fatal =>
        /\ respawn_reports <= 1
        /\ respawn_reports >= 1 =>
              ~s_state.respawning /\ s_state.hearts_remaining = s_game_cfg.max_hearts

\* C7: a hit delivered while respawning changes neither deaths, hearts_remaining
\* nor respawn_end_time_ms.
C7_HitWhileRespawningDropped ==
    [][(Hit /\ s_state.respawning) =>
        /\ s_state'.deaths = s_state.deaths
        /\ s_state'.hearts_remaining = s_state.hearts_remaining
        /\ s_state'.respawn_end_time_ms = s_state.respawn_end_time_ms]_vars

SetInfiniteHeartsStep ==
    \E fd \in Fds : WsDataFrame(fd, [op |-> OP_CONFIG_UPDATE, max_hearts |-> -1])

\* C8: a config_update with max_hearts = -1 stores the sentinel itself, and while
\* the rule holds the (wrapped) sentinel no hit brings the hearts below 1.
C8_InfiniteHeartsKept ==
    [][/\ SetInfiniteHeartsStep => s_game_cfg'.max_hearts = -1
       /\ (Hit /\ s_game_cfg.max_hearts = U8(-1)) => s_state'.hearts_remaining >= 1]_vars

ResetStep ==
    \E fd \in Fds : WsDataFrame(fd, [op |-> OP_GAME_COMMAND, command |-> CMD_RESET])

\* C9: RESET zeroes the five counters, refills the hearts, clears respawning and
\* changes nothing else: identity, rules and server_connected keep their values.
C9_ResetFrame ==
    [][ResetStep =>
        /\ s_state'.kills = 0 /\ s_state'.deaths = 0 /\ s_state'.shots_fired = 0
        /\ s_state'.hits_landed = 0 /\ s_state'.friendly_fire_count = 0
        /\ s_state'.hearts_remaining = s_game_cfg.max_hearts
        /\ s_state'.respawning = FALSE
        /\ s_config' = s_config
        /\ s_game_cfg' = s_game_cfg
        /\ s_state'.server_connected = s_state.server_connected]_vars

\* C10: in every reachable state of the WS client table no two active rows
\* hold the same session handle, whatever the interleaving of handshakes,
\* data frames, closes and stale sweeps.
C10_OneRowPerFd ==
    \A i, j \in Slots :
        (i # j /\ s_clients[i].active /\ s_clients[j].active)
            => s_clients[i].fd # s_clients[j].fd

\* A handshake has just replaced the row of its own handle while another
\* handle holds a row and the timer task is in the middle of a sweep.
C10_Witness ==
    /\ rehandshake
    /\ count_active_clients_unsafe(s_clients) = Cardinality(WsFds)
    /\ task["timer"].pc = "sweep"

\* C11: the number of active rows never exceeds MAX_WS_CLIENTS, and the
\* add_client of a handshake that finds every slot held by another handle adds
\* no row, changes no row and issues no connect notification.
C11_FullTableRefuses ==
    /\ [](count_active_clients_unsafe(s_clients) <= MAX_WS_CLIENTS)
    /\ [][(/\ WsHandshakeAdd
           /\ count_active_clients_unsafe(s_clients) = MAX_WS_CLIENTS
           /\ find_client_by_fd(s_clients, task["httpd"].fd) = 0)
          => s_clients' = s_clients /\ cb_state' = cb_state]_vars

\* A handshake that arrived at a full table of other handles, none of them
\* stale, has been refused.
C11_Witness ==
    /\ hs.refused /\ ~hs.tracked /\ hs.count = MAX_WS_CLIENTS
    /\ task["httpd"].pc = "idle"
    /\ stale_fds(s_clients, now) = << >>
    /\ \A fd \in FullFds : cb_state[fd] = (find_client_by_fd(s_clients, fd) # 0)

\* C12 as stated: a handshake from a handle that already has an active row
\* leaves the number of active rows as it was when the handshake arrived.
C12_RehandshakeKeepsCount ==
    [][(WsHandshakeAdd /\ hs.tracked)
          => count_active_clients_unsafe(s_clients') = hs.count]_vars

\* C12 amended: with no other task in the server, a handshake from a handle
\* that already has an active row leaves the number of active rows lower by
\* exactly the number of other handles its stale sweep evicted, and its
\* add_client adds a row only if the sweep had evicted the handle's own.
C12_RehandshakeKeepsCountButEvictions ==
    [][(WsHandshakeAdd /\ hs.tracked)
          => /\ count_active_clients_unsafe(s_clients') = hs.count - hs.evicted
             /\ rehandshake'
                  => count_active_clients_unsafe(s_clients')
                       = count_active_clients_unsafe(s_clients)]_vars

\* A handshake from a handle that had a row has completed after its sweep
\* evicted another handle's stale row.
C12_Witness ==
    /\ hs.tracked /\ hs.evicted > 0 /\ rehandshake
    /\ task["httpd"].pc = "idle"
    /\ count_active_clients_unsafe(s_clients) = hs.count - hs.evicted

\* The idle time of row i at time t exceeds the timeout.
RowIsStale(tbl, i, t) ==
    tbl[i].active /\ U32Lt(WS_CLIENT_TIMEOUT_MS, U32Sub(t, tbl[i].last_activity_ms))

\* C13: a stale sweep collects every row idle for more than the timeout, each
\* row it removes is idle for more than the timeout at the moment of its
\* removal, and each removal delivers the disconnect notification of its
\* handle, whatever handshakes and activity updates run in between.
C13_SweepRemovesExactlyStale ==
    /\ [][WsSweepStart =>
            \A i \in Slots : RowIsStale(s_clients, i, now) =>
                \E k \in DOMAIN task'["timer"].stale :
                    task'["timer"].stale[k] = s_clients[i].fd]_vars
    /\ [][(\E t \in WsTasks : WsSweepRemove(t)) =>
            \A i \in Slots : (s_clients[i].active /\ ~s_clients'[i].active) =>
                /\ RowIsStale(s_clients, i, now)
                /\ cb_state[s_clients[i].fd] /\ ~cb_state'[s_clients[i].fd]]_vars

\* Row i holds the same handle before and after the step, with another
\* activity stamp.
Refreshed(i) ==
    /\ s_clients[i].active /\ s_clients'[i].active
    /\ s_clients'[i].fd = s_clients[i].fd
    /\ s_clients'[i].last_activity_ms # s_clients[i].last_activity_ms

\* C14: a send that fails leaves the client table, and with it the client's
\* last_activity_ms, unchanged; the activity stamp of a handle's row changes
\* only in a successful send to that handle or in the handling of a frame or
\* handshake that came from it.
C14_ActivityOnlyOnTraffic ==
    [][/\ (last_send' # last_send /\ ~last_send'.ok) => s_clients' = s_clients
       /\ \A i \in Slots : Refreshed(i) =>
            LET fd == s_clients[i].fd IN
            \/ last_send' = [fd |-> fd, ok |-> TRUE]
            \/ WsRecvData(fd)
            \/ WsRecvPong(fd)
            \/ WsHandshakeAdd /\ task["httpd"].fd = fd]_vars

\* The last send, to a handle that has a row, failed, and the row still
\* carries a stamp older than the clock.
C14_Witness ==
    /\ ~last_send.ok
    /\ \E i \in Slots :
         /\ s_clients[i].active /\ s_clients[i].fd = last_send.fd
         /\ U32Lt(s_clients[i].last_activity_ms, now)

C16_ControlFrames ==
    [][\A fd \in WsFds :
          LET i == find_client_by_fd(s_clients, fd) IN
          /\ (WsRecvPong(fd) /\ i # 0) =>
                 s_clients'[i].active /\ s_clients'[i].fd = fd /\ s_clients'[i].last_activity_ms = now
          /\ (WsRecvClose(fd) /\ i # 0) =>
                 /\ find_client_by_fd(s_clients', fd) = 0
                 /\ cb_state[fd] /\ ~cb_state'[fd]]_vars

\* C17: for every inbound type of the registry, a frame that carries only the
\* type string does what the frame that carries the corresponding op does,
\* and a frame that carries an op and some type string does what the frame
\* with that op alone does.
C17_TypeFallback ==
    [][\A fd \in Fds, t \in RegistryTypes :
          StatsSum(s_state) < MaxStats =>
             /\ WsDataFrame(fd, [type |-> t]) => WsDataFrame(fd, [op |-> RegistryOp(t)])
             /\ \A t2 \in RegistryTypes :
                   WsDataFrame(fd, [op |-> RegistryOp(t), type |-> t2])
                      => WsDataFrame(fd, [op |-> RegistryOp(t)])]_vars

\* C18: when a valid datagram arrives while the RX queue holds 16 entries,
\* the oldest entry is discarded and the new datagram is enqueued.
C18_OverflowDropsOldest ==
    [][(FloodDatagram /\ Len(s_rx_queue.items) = RX_QUEUE_LEN) =>
          s_rx_queue'.items = Append(Tail(s_rx_queue.items), [src_mac |-> "aa", seq |-> arrived + 1])]_vars

\* seq is newer than last, compared wrap-safely on 32 bits.
SeqNewer(seq, last) == U32Sub(seq, last) > 0

\* C19: espnow_comm_receive never delivers a datagram whose sequence is not
\* newer than the last sequence delivered from the same source MAC.
C19_NoStaleDelivery ==
    [][(espnow_comm_receive /\ s_rx_queue.items # << >>) =>
          LET env == Head(s_rx_queue.items) IN
          last_delivered[env.src_mac] # << >> => SeqNewer(env.seq, last_delivered[env.src_mac][1])]_vars

\* C20: espnow_comm_init on an initialised bus returns ESP_OK and leaves the
\* peer count, the locked channel, the RX queue and the send mutex as they
\* were, whatever configuration it is given.
C20_InitIdempotent ==
    [][(/\ s_initialised
        /\ \E config \in EspnowConfigs, init_ok \in BOOLEAN, chan_ok \in BOOLEAN :
              EspnowInit(config, init_ok, chan_ok)) =>
          /\ esp_call'.ret = "ESP_OK"
          /\ UNCHANGED <<s_initialised, s_peer_count, s_channel, s_rx_queue, s_send_mutex, esp_now>>]_vars

\* A second espnow_comm_init, with a channel other than the locked one, has
\* returned on a bus that has a peer and a queued datagram.
C20_Witness ==
    /\ s_initialised /\ s_peer_count > 0 /\ s_rx_queue.items # << >>
    /\ esp_call.fn = "init" /\ esp_call.arg # NoConfig
    /\ esp_call.arg.channel # 0 /\ esp_call.arg.channel # s_channel

\* C21: for the k-th consecutive station disconnect without an intervening
\* got-IP, k from 1 to 14, the supervisor waits 500, 1000, 2000 ms for k = 1,
\* 2, 3 and 5000 ms for k from 4 to 14, then calls connect.
C21_Backoff ==
    [][((\E g \in BOOLEAN : on_wifi_disconnect(g)) /\ streak' \in 1..14) =>
          /\ wifi_handler'.backoff_ms =
                (CASE streak' = 1 -> 500 [] streak' = 2 -> 1000 [] streak' = 3 -> 2000 [] OTHER -> 5000)
          /\ wifi_handler'.calls = <<"delay", "esp_wifi_set_ps", "esp_wifi_connect">>]_vars

\* The 14th consecutive disconnect has been handled.
C21_Witness == streak = 14 /\ wifi_handler.event = "disconnect" /\ wifi_handler.backoff_ms = 5000

\* C22: the retry counter is within 0..14 between handlers; a handler leaves
\* it at 0 exactly when it is got-IP or every 15th consecutive disconnect, and
\* on that disconnect the AP lock is clear afterwards and the driver is
\* stopped and started again before connect.
C22_RetryCounter ==
    /\ [](s_retry_count \in 0..14)
    /\ [][(s_retry_count' = 0) <=> (wifi_handler'.event = "got_ip" \/ streak' % MAX_RETRY_COUNT = 0)]_vars
    /\ [][((\E g \in BOOLEAN : on_wifi_disconnect(g)) /\ streak' % MAX_RETRY_COUNT = 0) =>
             /\ ~sta_bssid_set'
             /\ wifi_handler'.calls = <<"esp_wifi_stop", "delay", "esp_wifi_start",
                                        "esp_wifi_set_ps", "esp_wifi_connect">>]_vars

\* The 15th consecutive disconnect has restarted the driver and the counter
\* has since counted again.
C22_Witness == streak > MAX_RETRY_COUNT /\ s_retry_count = streak - MAX_RETRY_COUNT

\* C23: in provisioning mode a POST /config whose body has a non-empty ssid
\* stores ssid and pass, and name and role when given, in the wifi namespace
\* and restarts the device, and the boot that follows selects station mode.
C23_ProvisioningStores ==
    /\ [][\A f \in ProvisioningForms :
             (/\ config_post_handler(f)
              /\ g_wifi_boot_mode = "WIFI_BOOT_PROVISIONING"
              /\ f.ssid # << >>) =>
                /\ restarting'
                /\ Has(nvs_wifi', "ssid") /\ nvs_wifi'.ssid = f.ssid
                /\ Has(nvs_wifi', "pass") /\ nvs_wifi'.pass = (IF Has(f, "pass") THEN f.pass ELSE << >>)
                /\ (Has(f, "name") /\ f.name # << >>) => (Has(nvs_wifi', "name") /\ nvs_wifi'.name = f.name)
                /\ (Has(f, "role") /\ f.role # << >>) => (Has(nvs_wifi', "role") /\ nvs_wifi'.role = f.role)]_vars
    /\ [][\A r \in BootRands :
             (Boot(FALSE, r) /\ restarting /\ http_resp = "200 Information stored")
                => g_wifi_boot_mode' = "WIFI_BOOT_STA"]_vars

\* The step is a factory reset: POST /clean in station mode, or a boot with
\* the reset button held.
FactoryResetStep ==
    \/ clean_post_handler /\ g_wifi_boot_mode = "WIFI_BOOT_STA"
    \/ \E r \in BootRands : Boot(TRUE, r)

\* C24: after a factory reset the wifi and the game namespaces hold no keys
\* and the device restarts, and the boot that follows selects provisioning
\* mode.
C24_FactoryResetErasesBoth ==
    /\ [][FactoryResetStep => nvs_wifi' = EmptyNvs /\ nvs_game' = EmptyNvs /\ restarting']_vars
    /\ [][\A r \in BootRands :
             (Boot(FALSE, r) /\ restarting /\ nvs_wifi = EmptyNvs)
                => g_wifi_boot_mode' = "WIFI_BOOT_PROVISIONING"]_vars

\* C25: a boot that completes with no config_update and no factory reset since
\* the boot before it leaves the device_id and player_id of that boot.
C25_IdentityStableAcrossBoots ==
    [][\A r \in BootRands :
          (Boot(FALSE, r) /\ ~ids_touched) => <<s_config'.device_id, s_config'.player_id>> = boot_ids]_vars

\* The identity fields of a device config.
Identity(dev) == <<dev.device_id, dev.player_id, dev.team_id, dev.color_rgb, dev.device_name>>

\* C26: once a config_update has saved the identity, a boot restores exactly
\* the identity values that were in RAM.
C26_RebootRestoresIdentity ==
    [][\A r \in BootRands :
          (Boot(FALSE, r) /\ nvs_game # EmptyNvs) => Identity(s_config') = Identity(s_config)]_vars

\* C27: the seq_id of a shot_fired frame is a rolling 8-bit counter: it is
\* within 0..255 and is the number of shots modulo 256.
C27_SeqIdRolls ==
    [][ws_server_broadcast_shot =>
          shot_frame'.n \in 0..255 /\ shot_frame'.n = U8(s_state.shots_fired)]_vars

DataWidth(c) == IF c = "8+8" THEN 256 ELSE 4096

\* C29: a word made by createMessage16bit is accepted by validateMessage16bit
\* of the same codec, which returns the data restricted to the data width
\* (8 bits in the 8+8 codec, 12 bits in the 12+4 codec).
C29_RoundTrip ==
    (encoded # NoWord /\ decoded # NoWord) =>
        decoded.ok /\ decoded.data = encoded.data % DataWidth(encoded.codec)

\* The 12+4 codec has returned 0x1A5B cut to its 12 bits, 0xA5B.
C29_Witness ==
    /\ encoded # NoWord /\ decoded # NoWord
    /\ encoded.data = 6747
    /\ decoded.ok
    /\ encoded.codec = "12+4"
    /\ decoded.data = 2651

IdleWords == {0, 65535}

C31_ClampIdempotent ==
    [][(\E cfg \in GameConfigInputs : ApplyGameConfig(cfg)) =>
          game_state_apply_game_config(s_game_cfg') = s_game_cfg']_vars

\* Rules at the upper limits are stored: only inputs above the limits of
\* the duration, the reload time and the respawn time produce all three.
C31_Witness ==
    /\ s_game_cfg.time_limit_s = 7200
    /\ s_game_cfg.reload_time_ms = 30000
    /\ s_game_cfg.respawn_cooldown_ms = 30000
    /\ s_game_cfg.max_hearts = 1
    /\ s_game_cfg.shot_rate_limit_ms = 50

\* C32: on a station disconnect event the server_connected flag of the game
\* state becomes false and no other game state (stats, hearts, respawn
\* state, rules, identity) changes.
C32_DisconnectClearsFlag ==
    [][(\E get_config_ok \in BOOLEAN : on_wifi_disconnect(get_config_ok)) =>
          /\ s_state' = [s_state EXCEPT !.server_connected = FALSE]
          /\ s_game_cfg' = s_game_cfg
          /\ s_config' = s_config]_vars

\* C33: every write to identity, game rules or live state is performed
\* while the writer holds the game-state mutex, so a config update never
\* happens while another task is inside its locked respawn update.
C33_WritesUnderMutex ==
    /\ last_writer.held
    /\ last_writer.task = "httpd" => s_mutex \in {"free", "httpd"}

\* C34: at most one esp_now_send call is in progress at any time; a sender
\* that cannot take the send mutex within 50 ms returns false without
\* transmitting; and the mutex is released after every attempt (it is held
\* exactly while its holder is inside esp_now_send).
C34_SendSerialized ==
    /\ Cardinality({t \in Senders : send_task[t].pc = "esp_now_send"}) <= 1
    /\ \A t \in Senders :
         /\ send_task[t].pc = "esp_now_send" <=> send_owner = t
         /\ (send_task[t].pc = "idle" /\ send_task[t].waited_ms >= SEND_MUTEX_WAIT_MS
                /\ ~send_task[t].transmitted) => send_task[t].ret = "false"
         /\ send_task[t].ret = "true" => send_task[t].transmitted
         /\ send_task[t].transmitted => send_task[t].waited_ms <= SEND_MUTEX_WAIT_MS

\* One task is inside esp_now_send, another has given up after 50 ms without
\* transmitting, a third is still waiting.
C34_Witness ==
    \E a, b, c \in Senders :
        /\ send_task[a].pc = "esp_now_send"
        /\ send_task[b].pc = "idle" /\ send_task[b].ret = "false" /\ ~send_task[b].transmitted
        /\ send_task[b].waited_ms = SEND_MUTEX_WAIT_MS
        /\ send_task[c].pc = "take"

\* C35: respawn expiry is wrap-safe: the test of game_state_check_respawn
\* made during a respawn started at t succeeds exactly when (now - t) modulo
\* 2^32 has reached respawn_cooldown_ms, also when t + respawn_cooldown_ms
\* overflows.
C35_RespawnWrapSafe ==
    [][\A p \in Pollers :
          (CheckRespawnTest(p) /\ s_state.respawning) =>
             LET cd == s_game_cfg.respawn_cooldown_ms
                 t == U32Sub(s_state.respawn_end_time_ms, cd)
             IN  (pc'[p] = "commit") <=> U32Ge(U32Sub(now, t), cd)]_vars

\* C36: for every session handle the notifications delivered to on_connect
\* strictly alternate, starting with connected: connected is delivered only
\* to a handle last reported disconnected (or never reported), disconnected
\* only to a handle last reported connected.
C36_CallbacksAlternate ==
    /\ [][(WsHandshakeAdd /\ add_client_notifies(s_clients, task["httpd"].fd))
             => ~cb_state[task["httpd"].fd]]_vars
    /\ [][\A t \in WsTasks :
             (WsSweepRemove(t) /\ remove_client_notifies(s_clients, Head(task[t].stale)))
                => cb_state[Head(task[t].stale)]]_vars

\* C37: the WS server invokes on_connect and on_message only while the
\* client-table mutex is released, so a callback that calls
\* ws_server_client_count never blocks on that mutex.
C37_CallbacksOutsideMutex ==
    /\ cb_call.fn # "none" => ~cb_call.locked
    /\ task["httpd"].pc # "blocked"

NextReconnect ==
    \/ StaDisconnected
    \/ \E get_config_ok \in BOOLEAN : HandleDisconnect(get_config_ok)
    \/ \E ap_info_ok \in BOOLEAN, primary \in ApChannels, httpd_ok \in BOOLEAN :
          on_got_ip(ap_info_ok, primary, httpd_ok)

SpecReconnect ==
    /\ Init
    /\ [][NextReconnect]_vars
    /\ WF_vars(\E get_config_ok \in BOOLEAN : HandleDisconnect(get_config_ok))

\* The handler that ran last was on_wifi_disconnect and the last driver call
\* it made was esp_wifi_connect.
ConnectAttempted ==
    /\ sta_event = "none"
    /\ wifi_handler.event = "disconnect"
    /\ Len(wifi_handler.calls) > 0
    /\ wifi_handler.calls[Len(wifi_handler.calls)] = "esp_wifi_connect"

\* C39: every posted station disconnect is eventually followed by an
\* esp_wifi_connect, whatever the retry counter is, the disconnect that
\* restarts the driver included.
C39_ReconnectAttempted == (sta_event = "disconnected") ~> ConnectAttempted

C39_Witness ==
    /\ ConnectAttempted
    /\ streak = MAX_RETRY_COUNT
    /\ s_retry_count = 0
    /\ wifi_handler.calls[1] = "esp_wifi_stop"

\* The BLE target: the NimBLE host task delivers notifications, the
\* application polls.
NextBle ==
    \/ \E m \in BleMessages, len \in NotifyLengths : NotifyRx(m, len)
    \/ hasMessage
    \/ getMessage
    \/ fetchMessage

SpecBle == Init /\ [][NextBle]_vars

\* C40: a hasMessage called after getMessage, with no notification accepted
\* in between, returns false.
C40_NoMessageTwice ==
    (ble_call.fn = "hasMessage" /\ read_since_rx) => ~ble_call.ret

====
